---- MODULE Spec2Model ----
(***************************************************************************)
(* caddy-dns-register: the reconciliation engine of src/app.go.            *)
(*                                                                         *)
(* Strings are sequences of tokens, so that prefix tests, concatenation    *)
(* and quoting are computed and not assumed: the name "_cdr.www" is        *)
(* <<"_cdr.", "www">>, the key "www:A" is <<"www", ":", "A">>.             *)
(* The zone is the provider's record list, in RR form (name, type, TTL,    *)
(* data); GetRecords hands it out as typed libdns records.                 *)
(***************************************************************************)
EXTENDS Integers, Sequences, FiniteSets, TLC

VARIABLES
    zone,       \* the provider's records of the zone, a sequence of RRs
    caps,       \* the interfaces the provider implements
    ownerID,    \* App.OwnerID of each instance
    declared,   \* Domain.Records of each instance
    pc,         \* "idle" or "apply": where reconcileDomain stands
    snapshot,   \* existing: what GetRecords returned to the pass
    owned,      \* owned: the map parseOwnedRecords returned
    toCreate,   \* the three slices of the diff
    toUpdate,
    toDelete,
    ix,         \* how many items of each slice the apply loops have done
    calls,      \* the provider calls the pass has issued, in order
    result,     \* what the last reconcileDomain returned
    clean,      \* no call of the pass failed and nobody else wrote since its fetch
    ext,        \* external mutations so far
    log,        \* what a.logger has written about the current pass, per domain
    app,        \* what Provision and Start returned, Start's loop position, a.ctx
    codec,      \* a record, a marker and what the codec functions make of them
    elsewhere   \* the records of the zones of a.Domains that Start's loop is not at

vars == <<zone, caps, ownerID, declared, pc, snapshot, owned, toCreate,
          toUpdate, toDelete, ix, calls, result, clean, ext, log, app, codec,
          elsewhere>>

----------------------------------------------------------------------------
(* Bounds *)

MaxExternal == 2

MaxSnapshot == 4

----------------------------------------------------------------------------
(* Strings *)

txtPrefix == <<"_cdr.">>

txtHeritage == <<"caddy-dns-register">>

HasPrefix(s, p) == Len(s) >= Len(p) /\ SubSeq(s, 1, Len(p)) = p

TrimPrefix(s, p) == IF HasPrefix(s, p) THEN SubSeq(s, Len(p) + 1, Len(s)) ELSE s

Quoted(s) == <<"\"">> \o s \o <<"\"">>

RECURSIVE SeqToSet(_)
SeqToSet(s) == IF s = <<>> THEN {} ELSE {Head(s)} \cup SeqToSet(Tail(s))

Perms(S) ==
    {s \in [1..Cardinality(S) -> S] : \A a, b \in DOMAIN s : a # b => s[a] # s[b]}

----------------------------------------------------------------------------
(* net/netip on the literals of the model: ParseAddr accepts the keys of    *)
(* AddrTable and yields the address, written in its canonical String form.  *)

AddrTable ==
    (<<"192.0.2.1">> :> <<"192.0.2.1">>) @@
    (<<"192.0.2.2">> :> <<"192.0.2.2">>) @@
    (<<"2001:db8::1">> :> <<"2001:db8::1">>) @@
    (<<"2001:DB8::1">> :> <<"2001:db8::1">>)

ParseAddrOk(v) == v \in DOMAIN AddrTable

ParseAddr(v) == AddrTable[v]

Is6(ip) == ip = <<"2001:db8::1">>

AddrString(ip) == ip

----------------------------------------------------------------------------
(* libdns records.  kind is the Go type; Type is a field of libdns.RR only, *)
(* Pref (the preference, in digits) a field of libdns.MX only.              *)

LibRR(name, type, ttl, data) ==
    [kind |-> "RR", Name |-> name, Type |-> type, TTL |-> ttl, Data |-> data,
     Pref |-> ""]

LibAddress(name, ip, ttl) ==
    [kind |-> "Address", Name |-> name, Type |-> "", TTL |-> ttl, Data |-> ip,
     Pref |-> ""]

LibTXT(name, text, ttl) ==
    [kind |-> "TXT", Name |-> name, Type |-> "", TTL |-> ttl, Data |-> text,
     Pref |-> ""]

LibCNAME(name, target, ttl) ==
    [kind |-> "CNAME", Name |-> name, Type |-> "", TTL |-> ttl, Data |-> target,
     Pref |-> ""]

\* Record.RR(): the name, type, TTL and data of any libdns record
RR(rec) ==
    [Name |-> rec.Name,
     Type |-> CASE rec.kind = "Address" -> (IF Is6(rec.Data) THEN "AAAA" ELSE "A")
                [] rec.kind = "TXT" -> "TXT"
                [] rec.kind = "CNAME" -> "CNAME"
                [] rec.kind = "MX" -> "MX"
                [] rec.kind = "NS" -> "NS"
                [] OTHER -> rec.Type,
     TTL |-> rec.TTL,
     Data |-> CASE rec.kind = "Address" -> AddrString(rec.Data)
                [] rec.kind = "MX" -> <<rec.Pref, " ">> \o rec.Data
                [] OTHER -> rec.Data]

\* RR.Parse(): the typed record a provider hands out for a stored RR
ParseRR(rr) ==
    CASE rr.Type \in {"A", "AAAA"} /\ ParseAddrOk(rr.Data)
             -> LibAddress(rr.Name, ParseAddr(rr.Data), rr.TTL)
      [] rr.Type = "TXT" -> LibTXT(rr.Name, rr.Data, rr.TTL)
      [] rr.Type = "CNAME" -> LibCNAME(rr.Name, rr.Data, rr.TTL)
      [] OTHER -> LibRR(rr.Name, rr.Type, rr.TTL, rr.Data)

----------------------------------------------------------------------------
(* The Record codec of app.go *)

Record(name, type, value, ttl) ==
    [Name |-> name, Type |-> type, Value |-> value, TTL |-> ttl]

Key(name, type) == name \o <<":", type>>

\* the parse error is dropped and the zero address is sent
toLibdnsRecordNoFallback(rec) ==
    LET ttl == IF rec.TTL = 0 THEN 300 ELSE rec.TTL
    IN CASE rec.Type \in {"A", "AAAA"} ->
              IF ParseAddrOk(rec.Value)
              THEN LibAddress(rec.Name, ParseAddr(rec.Value), ttl)
              ELSE LibAddress(rec.Name, <<"invalid IP">>, ttl)
         [] rec.Type = "TXT" -> LibTXT(rec.Name, rec.Value, ttl)
         [] rec.Type = "CNAME" -> LibCNAME(rec.Name, rec.Value, ttl)
         [] OTHER -> LibRR(rec.Name, rec.Type, ttl, rec.Value)

toLibdnsRecord(rec) ==
    LET ttl == IF rec.TTL = 0 THEN 300 ELSE rec.TTL
    IN CASE rec.Type \in {"A", "AAAA"} ->
              IF ParseAddrOk(rec.Value)
              THEN LibAddress(rec.Name, ParseAddr(rec.Value), ttl)
              ELSE LibRR(rec.Name, rec.Type, ttl, rec.Value)
         [] rec.Type = "TXT" -> LibTXT(rec.Name, rec.Value, ttl)
         [] rec.Type = "CNAME" -> LibCNAME(rec.Name, rec.Value, ttl)
         [] OTHER -> LibRR(rec.Name, rec.Type, ttl, rec.Value)

\* the text of a TXT record comes back in its quotes
extractValueQuotedTXT(rec) ==
    CASE rec.kind = "Address" -> AddrString(rec.Data)
      [] rec.kind = "TXT" -> Quoted(rec.Data)
      [] rec.kind = "CNAME" -> rec.Data
      [] rec.kind = "MX" -> <<rec.Pref, " ">> \o rec.Data
      [] rec.kind = "NS" -> rec.Data
      [] OTHER -> RR(rec).Data

extractValue(rec) ==
    CASE rec.kind = "Address" -> AddrString(rec.Data)
      [] rec.kind = "TXT" -> rec.Data
      [] rec.kind = "CNAME" -> rec.Data
      [] rec.kind = "MX" -> <<rec.Pref, " ">> \o rec.Data
      [] rec.kind = "NS" -> rec.Data
      [] OTHER -> RR(rec).Data

ExpectedValue(owner) == <<"owner=">> \o owner \o <<",heritage=">> \o txtHeritage

makeTXTMarker(owner, name) == LibTXT(txtPrefix \o name, ExpectedValue(owner), 300)

----------------------------------------------------------------------------
(* Ownership registry *)

\* every marker counts, whoever its payload names
OwnMarkersAnyPayload(owner, records) ==
    {TrimPrefix(RR(records[k]).Name, txtPrefix) : k \in
        {j \in DOMAIN records :
            /\ RR(records[j]).Type = "TXT"
            /\ HasPrefix(RR(records[j]).Name, txtPrefix)}}

\* a quoted payload is not taken for ours
OwnMarkersBareOnly(owner, records) ==
    {TrimPrefix(RR(records[k]).Name, txtPrefix) : k \in
        {j \in DOMAIN records :
            /\ RR(records[j]).Type = "TXT"
            /\ HasPrefix(RR(records[j]).Name, txtPrefix)
            /\ RR(records[j]).Data = ExpectedValue(owner)}}

\* first loop of parseOwnedRecords: the names our markers claim
OwnMarkers(owner, records) ==
    {TrimPrefix(RR(records[k]).Name, txtPrefix) : k \in
        {j \in DOMAIN records :
            /\ RR(records[j]).Type = "TXT"
            /\ HasPrefix(RR(records[j]).Name, txtPrefix)
            /\ \/ RR(records[j]).Data = ExpectedValue(owner)
               \/ RR(records[j]).Data = Quoted(ExpectedValue(owner))}}

\* second loop of parseOwnedRecords: a later record overwrites an earlier one
RECURSIVE OwnedLoop(_, _, _)
OwnedLoop(records, markers, acc) ==
    IF records = <<>> THEN acc
    ELSE LET rec == Head(records)
             rr == RR(rec)
         IN IF ~HasPrefix(rr.Name, txtPrefix) /\ rr.Name \in markers
            THEN OwnedLoop(Tail(records), markers,
                     (Key(rr.Name, rr.Type) :>
                         Record(rr.Name, rr.Type, extractValue(rec), rr.TTL)) @@ acc)
            ELSE OwnedLoop(Tail(records), markers, acc)

\* one loop: a record is owned when its marker came before it
RECURSIVE OnePassLoop(_, _, _, _)
OnePassLoop(owner, records, markers, acc) ==
    IF records = <<>> THEN acc
    ELSE LET rec == Head(records)
             rr == RR(rec)
         IN IF HasPrefix(rr.Name, txtPrefix)
            THEN OnePassLoop(owner, Tail(records),
                     markers \cup OwnMarkers(owner, <<rec>>), acc)
            ELSE IF rr.Name \in markers
                 THEN OnePassLoop(owner, Tail(records), markers,
                          (Key(rr.Name, rr.Type) :>
                              Record(rr.Name, rr.Type, extractValue(rec), rr.TTL)) @@ acc)
                 ELSE OnePassLoop(owner, Tail(records), markers, acc)

parseOwnedRecordsOnePass(owner, records) ==
    OnePassLoop(owner, records, {}, <<>>)

\* one entry per name: a record of another type replaces the entry
RECURSIVE OwnedLoopByName(_, _, _)
OwnedLoopByName(records, markers, acc) ==
    IF records = <<>> THEN acc
    ELSE LET rec == Head(records)
             rr == RR(rec)
             others == {k \in DOMAIN acc : acc[k].Name # rr.Name}
         IN IF ~HasPrefix(rr.Name, txtPrefix) /\ rr.Name \in markers
            THEN OwnedLoopByName(Tail(records), markers,
                     (Key(rr.Name, rr.Type) :>
                         Record(rr.Name, rr.Type, extractValue(rec), rr.TTL))
                     @@ [k \in others |-> acc[k]])
            ELSE OwnedLoopByName(Tail(records), markers, acc)

parseOwnedRecordsByName(owner, records) ==
    OwnedLoopByName(records, OwnMarkers(owner, records), <<>>)

\* records under the marker prefix are looked up like any other
RECURSIVE OwnedLoopNoSkip(_, _, _)
OwnedLoopNoSkip(records, markers, acc) ==
    IF records = <<>> THEN acc
    ELSE LET rec == Head(records)
             rr == RR(rec)
         IN IF rr.Name \in markers
            THEN OwnedLoopNoSkip(Tail(records), markers,
                     (Key(rr.Name, rr.Type) :>
                         Record(rr.Name, rr.Type, extractValue(rec), rr.TTL)) @@ acc)
            ELSE OwnedLoopNoSkip(Tail(records), markers, acc)

parseOwnedRecordsNoSkip(owner, records) ==
    OwnedLoopNoSkip(records, OwnMarkers(owner, records), <<>>)

\* every name counts as claimed
parseOwnedRecordsUnmarked(owner, records) ==
    OwnedLoop(records, {RR(records[k]).Name : k \in DOMAIN records}, <<>>)

parseOwnedRecords(owner, records) ==
    OwnedLoop(records, OwnMarkers(owner, records), <<>>)

----------------------------------------------------------------------------
(* Diff *)

\* desired: the map built from Domain.Records, a later record wins
RECURSIVE DesiredLoop(_, _)
DesiredLoop(recs, acc) ==
    IF recs = <<>> THEN acc
    ELSE DesiredLoop(Tail(recs),
             (Key(Head(recs).Name, Head(recs).Type) :> Head(recs)) @@ acc)

\* the first record of a key stays
RECURSIVE DesiredLoopFirst(_, _)
DesiredLoopFirst(recs, acc) ==
    IF recs = <<>> THEN acc
    ELSE DesiredLoopFirst(Tail(recs),
             acc @@ (Key(Head(recs).Name, Head(recs).Type) :> Head(recs)))

DesiredFirstWins(recs) == DesiredLoopFirst(recs, <<>>)

Desired(recs) == DesiredLoop(recs, <<>>)

\* every owned key is deleted, declared or not
RECURSIVE DeleteLoopAll(_, _)
DeleteLoopAll(keys, desired) ==
    IF keys = <<>> THEN <<>>
    ELSE <<Head(keys)>> \o DeleteLoopAll(Tail(keys), desired)

\* for key := range owned, in the order keys of the map iteration
RECURSIVE DeleteLoop(_, _)
DeleteLoop(keys, desired) ==
    IF keys = <<>> THEN <<>>
    ELSE IF Head(keys) \notin DOMAIN desired
         THEN <<Head(keys)>> \o DeleteLoop(Tail(keys), desired)
         ELSE DeleteLoop(Tail(keys), desired)

\* an unset TTL that differs counts as a change
NeedsUpdateNoTTLGuard(existingRec, rec) ==
    existingRec.Value # rec.Value \/ existingRec.TTL # rec.TTL

NeedsUpdate(existingRec, rec) ==
    existingRec.Value # rec.Value \/ (rec.TTL > 0 /\ existingRec.TTL # rec.TTL)

\* for key, rec := range desired, in the order keys of the map iteration
RECURSIVE CreateUpdateLoop(_, _, _)
CreateUpdateLoop(keys, own, desired) ==
    IF keys = <<>> THEN [create |-> <<>>, update |-> <<>>]
    ELSE LET key == Head(keys)
             rec == desired[key]
             rest == CreateUpdateLoop(Tail(keys), own, desired)
         IN IF key \in DOMAIN own
            THEN IF NeedsUpdate(own[key], rec)
                 THEN [rest EXCEPT !.update = <<rec>> \o @]
                 ELSE rest
            ELSE [rest EXCEPT !.create = <<rec>> \o @]

----------------------------------------------------------------------------
(* The provider, as libdns specifies its four interfaces *)

SameRRSet(a, b) == a.Name = b.Name /\ a.Type = b.Type

\* an input field left zero matches any value
Matches(z, in) ==
    /\ z.Name = in.Name
    /\ in.Type = "" \/ z.Type = in.Type
    /\ in.TTL = 0 \/ z.TTL = in.TTL
    /\ in.Data = <<>> \/ z.Data = in.Data

RRs(recs) == [k \in DOMAIN recs |-> RR(recs[k])]

GetRecords(z) == [k \in DOMAIN z |-> ParseRR(z[k])]

SetRecords(z, recs) ==
    SelectSeq(z, LAMBDA r : \A k \in DOMAIN recs : ~SameRRSet(r, RR(recs[k])))
        \o RRs(recs)

AppendRecords(z, recs) ==
    z \o SelectSeq(RRs(recs), LAMBDA r : \A k \in DOMAIN z : z[k] # r)

DeleteRecords(z, recs) ==
    SelectSeq(z, LAMBDA r : \A k \in DOMAIN recs : ~Matches(r, RR(recs[k])))

----------------------------------------------------------------------------
(* Instances, configurations and the records other actors may write *)

Inst == {1, 2}

www == <<"www">>

api == <<"api">>

wwwA1 == Record(www, "A", <<"192.0.2.1">>, 0)

wwwA2 == Record(www, "A", <<"192.0.2.2">>, 0)

wwwA1t == Record(www, "A", <<"192.0.2.1">>, 60)

wwwTXT == Record(www, "TXT", <<"hello">>, 0)

apiA == Record(api, "A", <<"192.0.2.1">>, 300)

pfxTXT == Record(txtPrefix \o www, "TXT", <<"x">>, 0)

\* Domain.Records an operator may load into instance 1
Configs ==
    {<<>>, <<wwwA1>>, <<wwwA2>>, <<wwwA1t>>, <<wwwTXT>>, <<wwwA1, wwwTXT>>,
     <<wwwA1, apiA>>, <<wwwA1, wwwA2>>, <<wwwA1, pfxTXT>>}

\* the interfaces a provider module may implement
CapSets ==
    {{"get", "set", "append", "delete"}, {"get", "set"}, {"get", "append", "delete"},
     {"set", "delete"}, {"get", "delete"}}

ZoneRR(name, type, ttl, data) ==
    [Name |-> name, Type |-> type, TTL |-> ttl, Data |-> data]

\* what a human, another tool or another instance may put into the zone
ExtRRs ==
    {ZoneRR(www, "A", 300, <<"192.0.2.2">>),
     ZoneRR(api, "A", 300, <<"192.0.2.2">>),
     ZoneRR(txtPrefix \o www, "TXT", 300, ExpectedValue(<<"other">>)),
     ZoneRR(txtPrefix \o api, "TXT", 300, Quoted(ExpectedValue(<<"caddy">>)))}

hasGetter == "get" \in caps

hasSetter == "set" \in caps

hasAppender == "append" \in caps

hasDeleter == "delete" \in caps

----------------------------------------------------------------------------
(* Init: the apps are provisioned, nothing has run *)

NoPlan == [d |-> 0, c |-> 0, u |-> 0]

\* Domain.Zone of the entries of a.Domains
DomainZone == (1 :> "example.com") @@ (2 :> "example.org")

\* the App once Provision has returned nil: every domain has a dns_provider
\* configuration (raw) and its provider is loaded; Start has not been called
ProvisionedApp ==
    [provision |-> "nil", start |-> "none", cur |-> 0, ctx |-> "live",
     raw |-> [i \in Inst |-> TRUE], loaded |-> Inst, err |-> ""]

\* App after Provision, before the first Start
Provisioned ==
    /\ ownerID = (1 :> <<"caddy">>) @@ (2 :> <<"other">>)
    /\ pc = [i \in Inst |-> "idle"]
    /\ snapshot = [i \in Inst |-> <<>>]
    /\ owned = [i \in Inst |-> <<>>]
    /\ toCreate = [i \in Inst |-> <<>>]
    /\ toUpdate = [i \in Inst |-> <<>>]
    /\ toDelete = [i \in Inst |-> <<>>]
    /\ ix = [i \in Inst |-> NoPlan]
    /\ calls = [i \in Inst |-> <<>>]
    /\ result = [i \in Inst |-> "none"]
    /\ clean = [i \in Inst |-> FALSE]
    /\ ext = 0
    /\ log = [i \in Inst |-> <<>>]
    /\ app = ProvisionedApp
    /\ codec = <<>>
    /\ elsewhere = <<>>

Init ==
    /\ zone = <<>>
    /\ caps \in CapSets
    /\ declared \in {(1 :> c) @@ (2 :> <<>>) : c \in Configs}
    /\ Provisioned

\* zone contents left behind by earlier runs and by other writers
ZoneUniverse ==
    <<ZoneRR(txtPrefix \o www, "TXT", 300, ExpectedValue(<<"caddy">>)),
      ZoneRR(www, "A", 300, <<"192.0.2.1">>),
      ZoneRR(www, "A", 300, <<"192.0.2.2">>),
      ZoneRR(www, "TXT", 300, <<"hello">>),
      ZoneRR(api, "A", 60, <<"192.0.2.1">>),
      ZoneRR(txtPrefix \o api, "TXT", 300, Quoted(ExpectedValue(<<"caddy">>))),
      ZoneRR(txtPrefix \o www, "TXT", 300, ExpectedValue(<<"other">>))>>

\* the subsequence of s at the positions P
RECURSIVE Pick(_, _, _)
Pick(s, P, k) ==
    IF k > Len(s) THEN <<>>
    ELSE (IF k \in P THEN <<s[k]>> ELSE <<>>) \o Pick(s, P, k + 1)

InitAny ==
    /\ zone \in {Pick(ZoneUniverse, P, 1) : P \in SUBSET DOMAIN ZoneUniverse}
    /\ caps \in {{"get", "set", "append", "delete"}, {"get", "set"},
                 {"get", "append", "delete"}}
    /\ declared \in {(1 :> c) @@ (2 :> <<>>) : c \in Configs}
    /\ Provisioned

----------------------------------------------------------------------------
(* reconcileDomain, one action per provider call *)

Call(op, phase, recs, ok) == [op |-> op, phase |-> phase, recs |-> recs, ok |-> ok]

\* a.logger.Info / Warn / Error with the zap fields name and type
Entry(level, msg, name, type) == [level |-> level, msg |-> msg, name |-> name, type |-> type]

\* the other instances see the zone change under their pass
Disturb(i, z) ==
    [j \in Inst |-> IF j = i THEN clean[j] ELSE clean[j] /\ z = zone]

\* the records are fetched before the write capabilities are looked at
ReconcileCapErrorAfterFetch(i) ==
    /\ pc[i] = "idle"
    /\ ~hasGetter \/ (~hasSetter /\ ~hasAppender)
    /\ result' = [result EXCEPT ![i] = "caperr"]
    /\ calls' = [calls EXCEPT ![i] =
                    IF hasGetter THEN <<Call("get", "fetch", <<>>, TRUE)>> ELSE @]
    /\ UNCHANGED <<zone, caps, ownerID, app, codec, elsewhere, declared, pc,
                   snapshot, owned, toCreate, toUpdate, toDelete, ix, clean,
                   ext, log>>

\* the capability checks fail: an error, and no provider call
ReconcileCapError(i) ==
    /\ pc[i] = "idle"
    /\ ~hasGetter \/ (~hasSetter /\ ~hasAppender)
    /\ result' = [result EXCEPT ![i] = "caperr"]
    /\ UNCHANGED <<zone, caps, ownerID, app, codec, elsewhere, declared, pc,
                   snapshot, owned, toCreate, toUpdate, toDelete, ix, calls,
                   clean, ext, log>>

\* GetRecords fails: the zone is given up for this pass
ReconcileFetchError(i) ==
    /\ pc[i] = "idle"
    /\ hasGetter /\ (hasSetter \/ hasAppender)
    /\ result' = [result EXCEPT ![i] = "fetcherr"]
    /\ UNCHANGED <<zone, caps, ownerID, app, codec, elsewhere, declared, pc,
                   snapshot, owned, toCreate, toUpdate, toDelete, ix, calls,
                   clean, ext, log>>

\* GetRecords succeeds: classify and diff
ReconcileFetch(i) ==
    /\ pc[i] = "idle"
    /\ hasGetter /\ (hasSetter \/ hasAppender)
    /\ LET existing == GetRecords(zone)
           own == parseOwnedRecords(ownerID[i], existing)
           desired == Desired(declared[i])
       IN \E ko \in Perms(DOMAIN own), kd \in Perms(DOMAIN desired) :
            LET cu == CreateUpdateLoop(kd, own, desired)
            IN /\ snapshot' = [snapshot EXCEPT ![i] = existing]
               /\ owned' = [owned EXCEPT ![i] = own]
               /\ toDelete' = [toDelete EXCEPT ![i] = DeleteLoop(ko, desired)]
               /\ toCreate' = [toCreate EXCEPT ![i] = cu.create]
               /\ toUpdate' = [toUpdate EXCEPT ![i] = cu.update]
    /\ ix' = [ix EXCEPT ![i] = NoPlan]
    /\ calls' = [calls EXCEPT ![i] = <<Call("get", "fetch", <<>>, TRUE)>>]
    /\ log' = [log EXCEPT ![i] = <<Entry("info", "reconciling DNS records", <<>>, "")>>]
    /\ result' = [result EXCEPT ![i] = "running"]
    /\ clean' = [clean EXCEPT ![i] = TRUE]
    /\ pc' = [pc EXCEPT ![i] = "apply"]
    /\ UNCHANGED <<zone, caps, ownerID, app, codec, elsewhere, declared, ext>>

\* the create loop runs before the delete loop
NextOpCreateFirst(i) ==
    IF ix[i].c < Len(toCreate[i]) THEN "create"
    ELSE IF hasDeleter /\ ix[i].d < Len(toDelete[i]) THEN "delete"
    ELSE IF hasSetter /\ ix[i].u < Len(toUpdate[i]) THEN "update"
    ELSE "return"

\* a failed call ends the pass
NextOpAbortOnError(i) ==
    IF \E k \in DOMAIN calls[i] : ~calls[i][k].ok THEN "return"
    ELSE IF hasDeleter /\ ix[i].d < Len(toDelete[i]) THEN "delete"
    ELSE IF ix[i].c < Len(toCreate[i]) THEN "create"
    ELSE IF hasSetter /\ ix[i].u < Len(toUpdate[i]) THEN "update"
    ELSE "return"

\* which loop of the apply part the pass stands in
NextOp(i) ==
    IF hasDeleter /\ ix[i].d < Len(toDelete[i]) THEN "delete"
    ELSE IF ix[i].c < Len(toCreate[i]) THEN "create"
    ELSE IF hasSetter /\ ix[i].u < Len(toUpdate[i]) THEN "update"
    ELSE "return"

\* strings.SplitN(key, ":", 2) yields two parts
SplitsInTwo(key) == \E k \in DOMAIN key : key[k] = ":"

\* the delete request names every TXT record at the marker name
DeleteCallAnyMarker(i, ok) ==
    /\ pc[i] = "apply" /\ NextOp(i) = "delete"
    /\ LET key == toDelete[i][ix[i].d + 1]
           rec == owned[i][key]
           recs == <<toLibdnsRecord(rec), LibTXT(txtPrefix \o rec.Name, <<>>, 0)>>
           z == IF ok THEN DeleteRecords(zone, recs) ELSE zone
       IN IF SplitsInTwo(key)
          THEN /\ zone' = z
               /\ calls' = [calls EXCEPT ![i] =
                                Append(@, Call("delete", "delete", recs, ok))]
               /\ log' = [log EXCEPT ![i] = Append(@,
                      IF ok THEN Entry("info", "deleted record", rec.Name, rec.Type)
                      ELSE Entry("warn", "failed to delete record", rec.Name, rec.Type))]
               /\ clean' = [Disturb(i, z) EXCEPT ![i] = @ /\ ok]
          ELSE UNCHANGED <<zone, calls, clean, log>>
    /\ ix' = [ix EXCEPT ![i].d = @ + 1]
    /\ UNCHANGED <<caps, ownerID, app, codec, elsewhere, declared, pc, snapshot,
                   owned, toCreate, toUpdate, toDelete, result, ext>>

\* the delete request names the data record only
DeleteCallNoMarker(i, ok) ==
    /\ pc[i] = "apply" /\ NextOp(i) = "delete"
    /\ LET key == toDelete[i][ix[i].d + 1]
           rec == owned[i][key]
           recs == <<toLibdnsRecord(rec)>>
           z == IF ok THEN DeleteRecords(zone, recs) ELSE zone
       IN IF SplitsInTwo(key)
          THEN /\ zone' = z
               /\ calls' = [calls EXCEPT ![i] = Append(@, Call("delete", "delete", recs, ok))]
               /\ log' = [log EXCEPT ![i] = Append(@,
                      IF ok THEN Entry("info", "deleted record", rec.Name, rec.Type)
                      ELSE Entry("warn", "failed to delete record", rec.Name, rec.Type))]
               /\ clean' = [Disturb(i, z) EXCEPT ![i] = @ /\ ok]
          ELSE UNCHANGED <<zone, calls, clean, log>>
    /\ ix' = [ix EXCEPT ![i].d = @ + 1]
    /\ UNCHANGED <<caps, ownerID, app, codec, elsewhere, declared, pc,
                   snapshot, owned, toCreate, toUpdate, toDelete, result,
                   ext>>

DeleteCall(i, ok) ==
    /\ pc[i] = "apply" /\ NextOp(i) = "delete"
    /\ LET key == toDelete[i][ix[i].d + 1]
           rec == owned[i][key]
           recs == <<toLibdnsRecord(rec), makeTXTMarker(ownerID[i], rec.Name)>>
           z == IF ok THEN DeleteRecords(zone, recs) ELSE zone
       IN IF SplitsInTwo(key)
          THEN /\ zone' = z
               /\ calls' = [calls EXCEPT ![i] = Append(@, Call("delete", "delete", recs, ok))]
               /\ log' = [log EXCEPT ![i] = Append(@,
                      IF ok THEN Entry("info", "deleted record", rec.Name, rec.Type)
                      ELSE Entry("warn", "failed to delete record", rec.Name, rec.Type))]
               /\ clean' = [Disturb(i, z) EXCEPT ![i] = @ /\ ok]
          ELSE UNCHANGED <<zone, calls, clean, log>>
    /\ ix' = [ix EXCEPT ![i].d = @ + 1]
    /\ UNCHANGED <<caps, ownerID, app, codec, elsewhere, declared, pc,
                   snapshot, owned, toCreate, toUpdate, toDelete, result,
                   ext>>

\* the create goes through AppendRecords whenever the provider has it
CreateCallAppendFirst(i, ok) ==
    /\ pc[i] = "apply" /\ NextOp(i) = "create"
    /\ LET rec == toCreate[i][ix[i].c + 1]
           recs == <<toLibdnsRecord(rec), makeTXTMarker(ownerID[i], rec.Name)>>
           z == IF ~ok THEN zone
                ELSE IF hasAppender THEN AppendRecords(zone, recs)
                ELSE SetRecords(zone, recs)
       IN /\ zone' = z
          /\ calls' = [calls EXCEPT ![i] =
                 Append(@, Call(IF hasAppender THEN "append" ELSE "set", "create", recs, ok))]
          /\ log' = [log EXCEPT ![i] = Append(@,
                 IF ok THEN Entry("info", "created record", rec.Name, rec.Type)
                 ELSE Entry("warn", "failed to create record", rec.Name, rec.Type))]
          /\ clean' = [Disturb(i, z) EXCEPT ![i] = @ /\ ok]
    /\ ix' = [ix EXCEPT ![i].c = @ + 1]
    /\ UNCHANGED <<caps, ownerID, app, codec, elsewhere, declared, pc,
                   snapshot, owned, toCreate, toUpdate, toDelete, result,
                   ext>>

CreateCall(i, ok) ==
    /\ pc[i] = "apply" /\ NextOp(i) = "create"
    /\ LET rec == toCreate[i][ix[i].c + 1]
           recs == <<toLibdnsRecord(rec), makeTXTMarker(ownerID[i], rec.Name)>>
           z == IF ~ok THEN zone
                ELSE IF hasSetter THEN SetRecords(zone, recs)
                ELSE AppendRecords(zone, recs)
       IN /\ zone' = z
          /\ calls' = [calls EXCEPT ![i] =
                 Append(@, Call(IF hasSetter THEN "set" ELSE "append", "create", recs, ok))]
          /\ log' = [log EXCEPT ![i] = Append(@,
                 IF ok THEN Entry("info", "created record", rec.Name, rec.Type)
                 ELSE Entry("warn", "failed to create record", rec.Name, rec.Type))]
          /\ clean' = [Disturb(i, z) EXCEPT ![i] = @ /\ ok]
    /\ ix' = [ix EXCEPT ![i].c = @ + 1]
    /\ UNCHANGED <<caps, ownerID, app, codec, elsewhere, declared, pc,
                   snapshot, owned, toCreate, toUpdate, toDelete, result,
                   ext>>

\* the provider applies only one of the two records of a create and reports
\* an error: libdns writes are not atomic
CreateCallPartial(i, part) ==
    /\ pc[i] = "apply" /\ NextOp(i) = "create"
    /\ LET rec == toCreate[i][ix[i].c + 1]
           recs == <<toLibdnsRecord(rec), makeTXTMarker(ownerID[i], rec.Name)>>
           z == IF hasSetter THEN SetRecords(zone, <<recs[part]>>)
                ELSE AppendRecords(zone, <<recs[part]>>)
       IN /\ zone' = z
          /\ calls' = [calls EXCEPT ![i] =
                 Append(@, Call(IF hasSetter THEN "set" ELSE "append", "create", recs, FALSE))]
          /\ log' = [log EXCEPT ![i] =
                 Append(@, Entry("warn", "failed to create record", rec.Name, rec.Type))]
          /\ clean' = [Disturb(i, z) EXCEPT ![i] = FALSE]
    /\ ix' = [ix EXCEPT ![i].c = @ + 1]
    /\ UNCHANGED <<caps, ownerID, app, codec, elsewhere, declared, pc,
                   snapshot, owned, toCreate, toUpdate, toDelete, result,
                   ext>>

\* the update rewrites the marker along with the record
UpdateCallWithMarker(i, ok) ==
    /\ pc[i] = "apply" /\ NextOp(i) = "update"
    /\ LET rec == toUpdate[i][ix[i].u + 1]
           recs == <<toLibdnsRecord(rec), makeTXTMarker(ownerID[i], rec.Name)>>
           z == IF ok THEN SetRecords(zone, recs) ELSE zone
       IN /\ zone' = z
          /\ calls' = [calls EXCEPT ![i] = Append(@, Call("set", "update", recs, ok))]
          /\ log' = [log EXCEPT ![i] = Append(@,
                 IF ok THEN Entry("info", "updated record", rec.Name, rec.Type)
                 ELSE Entry("warn", "failed to update record", rec.Name, rec.Type))]
          /\ clean' = [Disturb(i, z) EXCEPT ![i] = @ /\ ok]
    /\ ix' = [ix EXCEPT ![i].u = @ + 1]
    /\ UNCHANGED <<caps, ownerID, app, codec, elsewhere, declared, pc,
                   snapshot, owned, toCreate, toUpdate, toDelete, result,
                   ext>>

UpdateCall(i, ok) ==
    /\ pc[i] = "apply" /\ NextOp(i) = "update"
    /\ LET rec == toUpdate[i][ix[i].u + 1]
           recs == <<toLibdnsRecord(rec)>>
           z == IF ok THEN SetRecords(zone, recs) ELSE zone
       IN /\ zone' = z
          /\ calls' = [calls EXCEPT ![i] = Append(@, Call("set", "update", recs, ok))]
          /\ log' = [log EXCEPT ![i] = Append(@,
                 IF ok THEN Entry("info", "updated record", rec.Name, rec.Type)
                 ELSE Entry("warn", "failed to update record", rec.Name, rec.Type))]
          /\ clean' = [Disturb(i, z) EXCEPT ![i] = @ /\ ok]
    /\ ix' = [ix EXCEPT ![i].u = @ + 1]
    /\ UNCHANGED <<caps, ownerID, app, codec, elsewhere, declared, pc,
                   snapshot, owned, toCreate, toUpdate, toDelete, result,
                   ext>>

\* what the locals of reconcileDomain hold outside of a pass; the log of a
\* pass is read before the pass returns
Forget(i) ==
    /\ snapshot' = [snapshot EXCEPT ![i] = <<>>]
    /\ owned' = [owned EXCEPT ![i] = <<>>]
    /\ toCreate' = [toCreate EXCEPT ![i] = <<>>]
    /\ toUpdate' = [toUpdate EXCEPT ![i] = <<>>]
    /\ toDelete' = [toDelete EXCEPT ![i] = <<>>]
    /\ ix' = [ix EXCEPT ![i] = NoPlan]
    /\ calls' = [calls EXCEPT ![i] = <<>>]
    /\ log' = [log EXCEPT ![i] = <<>>]
    /\ clean' = [clean EXCEPT ![i] = FALSE]

\* return nil
Return(i) ==
    /\ pc[i] = "apply" /\ NextOp(i) = "return"
    /\ pc' = [pc EXCEPT ![i] = "idle"]
    /\ result' = [result EXCEPT ![i] = "nil"]
    /\ Forget(i)
    /\ UNCHANGED <<zone, caps, ownerID, app, codec, elsewhere, declared, ext>>

----------------------------------------------------------------------------
(* The environment *)

\* a configuration reload between two passes
Reload(i) ==
    /\ pc[i] = "idle"
    /\ \E c \in Configs \ {declared[i]} : declared' = [declared EXCEPT ![i] = c]
    /\ UNCHANGED <<zone, caps, ownerID, app, codec, elsewhere, pc, snapshot,
                   owned, toCreate, toUpdate, toDelete, ix, calls, result,
                   clean, ext, log>>

InsertAt(z, k, r) == SubSeq(z, 1, k) \o <<r>> \o SubSeq(z, k + 1, Len(z))

RemoveAt(z, k) == SubSeq(z, 1, k - 1) \o SubSeq(z, k + 1, Len(z))

\* somebody else adds a record to the zone
ExternalAdd ==
    /\ ext < MaxExternal
    /\ \E r \in ExtRRs, k \in {0, Len(zone)} :
         /\ \A j \in DOMAIN zone : zone[j] # r
         /\ zone' = InsertAt(zone, k, r)
    /\ ext' = ext + 1
    /\ clean' = [i \in Inst |-> FALSE]
    /\ UNCHANGED <<caps, ownerID, app, codec, elsewhere, declared, pc,
                   snapshot, owned, toCreate, toUpdate, toDelete, ix, calls,
                   result, log>>

\* somebody else removes a record from the zone
ExternalRemove ==
    /\ ext < MaxExternal
    /\ \E k \in DOMAIN zone : zone' = RemoveAt(zone, k)
    /\ ext' = ext + 1
    /\ clean' = [i \in Inst |-> FALSE]
    /\ UNCHANGED <<caps, ownerID, app, codec, elsewhere, declared, pc,
                   snapshot, owned, toCreate, toUpdate, toDelete, ix, calls,
                   result, log>>

Pass(i) ==
    \/ ReconcileCapError(i)
    \/ ReconcileFetchError(i)
    \/ ReconcileFetch(i)
    \/ \E ok \in BOOLEAN : DeleteCall(i, ok)
    \/ \E ok \in BOOLEAN : CreateCall(i, ok)
    \/ \E ok \in BOOLEAN : UpdateCall(i, ok)
    \/ Return(i)

\* a pass all of whose provider calls succeed
GoodPass(i) ==
    \/ ReconcileCapError(i)
    \/ ReconcileFetch(i)
    \/ DeleteCall(i, TRUE)
    \/ CreateCall(i, TRUE)
    \/ UpdateCall(i, TRUE)
    \/ Return(i)

(* Spec: one instance, any provider, calls that may fail, other writers *)

Next ==
    \/ Pass(1)
    \/ ExternalAdd
    \/ ExternalRemove

Spec == Init /\ [][Next]_vars

(* SpecLife: one instance alone in the zone, its configuration reloaded    *)
(* between passes, every call succeeding                                   *)

NextLife ==
    \/ GoodPass(1)
    \/ Reload(1)

SpecLife == Init /\ [][NextLife]_vars

(* SpecAny: one pass after another over any zone content, calls that may fail *)

NextAny ==
    \/ ReconcileFetch(1)
    \/ \E ok \in BOOLEAN : DeleteCall(1, ok)
    \/ \E ok \in BOOLEAN : CreateCall(1, ok)
    \/ \E ok \in BOOLEAN : UpdateCall(1, ok)
    \/ Return(1)

SpecAny == InitAny /\ [][NextAny]_vars

(* SpecConv: the zone is in any state other writers left it in, they have   *)
(* stopped, the provider can fetch, set and delete, every call succeeds,    *)
(* and passes keep running                                                  *)

InitConv ==
    /\ zone \in {Pick(ZoneUniverse, P, 1) : P \in SUBSET DOMAIN ZoneUniverse}
    /\ caps = {"get", "set", "append", "delete"}
    /\ declared \in {(1 :> c) @@ (2 :> <<>>) : c \in Configs}
    /\ Provisioned

NextConv ==
    \/ ReconcileFetch(1)
    \/ DeleteCall(1, TRUE)
    \/ CreateCall(1, TRUE)
    \/ UpdateCall(1, TRUE)
    \/ Return(1)

SpecConv == InitConv /\ [][NextConv]_vars /\ WF_vars(NextConv)

(* SpecTwo: two instances with different owner IDs and key-disjoint         *)
(* configurations reconcile one zone, their passes interleaved call by call *)

\* what an earlier run of instance 1 left in the zone
ZonesTwo ==
    {<<>>,
     <<ZoneRR(www, "A", 300, <<"192.0.2.2">>),
       ZoneRR(txtPrefix \o www, "TXT", 300, ExpectedValue(<<"caddy">>))>>}

InitTwo ==
    /\ zone \in ZonesTwo
    /\ caps \in CapSets
    /\ declared \in {(1 :> <<wwwA1>>) @@ (2 :> c) : c \in {<<wwwTXT>>, <<apiA>>}}
    /\ Provisioned

NextTwo ==
    \/ GoodPass(1)
    \/ GoodPass(2)

SpecTwo == InitTwo /\ [][NextTwo]_vars

(* SpecStart: one App from Provision on.  The members of Inst are the       *)
(* entries of a.Domains, in order; both are served by the same provider     *)
(* and zone.  Start runs reconcileDomain for one after the other; Stop may  *)
(* cancel a.ctx at any moment.                                              *)

\* the domains at which Provision returns an error: those without a
\* dns_provider configuration and those whose module fails to load
StopsAt(bad) == {i \in Inst : ~app.raw[i] \/ i \in bad}

\* the least member of a non-empty set of numbers
First(S) == CHOOSE k \in S : \A j \in S : k <= j

\* a domain without dns_provider is passed over
ProvisionSkipMissing ==
    /\ app.provision = "none"
    /\ \E bad \in SUBSET {i \in Inst : app.raw[i]} :
         app' = [app EXCEPT
                   !.provision = IF bad = {} THEN "nil" ELSE "error",
                   !.loaded = IF bad = {} THEN {i \in Inst : app.raw[i]}
                              ELSE {i \in Inst : app.raw[i] /\ i < First(bad)},
                   !.err = IF bad = {} THEN "" ELSE DomainZone[First(bad)]]
    /\ ownerID' = [i \in Inst |-> IF ownerID[i] = <<>> THEN <<"caddy">> ELSE ownerID[i]]
    /\ UNCHANGED <<zone, caps, declared, pc, snapshot, owned, toCreate, toUpdate,
                   toDelete, ix, calls, result, clean, ext, log, codec,
                   elsewhere>>

\* Provision: the owner ID gets its default, then the provider modules are
\* loaded domain by domain until one has no dns_provider or fails to load
Provision ==
    /\ app.provision = "none"
    /\ \E bad \in SUBSET Inst :
         LET stop == StopsAt(bad)
         IN app' = [app EXCEPT
                      !.provision = IF stop = {} THEN "nil" ELSE "error",
                      !.loaded = IF stop = {} THEN Inst
                                 ELSE {i \in Inst : i < First(stop)},
                      !.err = IF stop = {} THEN "" ELSE DomainZone[First(stop)]]
    /\ ownerID' = [i \in Inst |-> IF ownerID[i] = <<>> THEN <<"caddy">> ELSE ownerID[i]]
    /\ UNCHANGED <<zone, caps, declared, pc, snapshot, owned, toCreate, toUpdate,
                   toDelete, ix, calls, result, clean, ext, log, codec,
                   elsewhere>>

\* Start is called: the loop over a.Domains begins
StartCall ==
    /\ app.provision = "nil" /\ app.start = "none" /\ app.cur = 0
    /\ app' = [app EXCEPT !.cur = 1]
    /\ UNCHANGED <<zone, caps, ownerID, declared, pc, snapshot, owned,
                   toCreate, toUpdate, toDelete, ix, calls, result, clean,
                   ext, log, codec, elsewhere>>

\* reconcileDomain for the domain the loop stands at
StartReconcile(i) ==
    /\ app.cur = i
    /\ \/ /\ result[i] = "none"
          /\ \/ ReconcileCapError(i)
             \/ ReconcileFetchError(i)
             \/ ReconcileFetch(i)
       \/ \E ok \in BOOLEAN : DeleteCall(i, ok)
       \/ \E ok \in BOOLEAN : CreateCall(i, ok)
       \/ \E ok \in BOOLEAN : UpdateCall(i, ok)
       \/ Return(i)

\* Start gives up as soon as a domain fails
StartNextAbort(i) ==
    /\ app.cur = i /\ pc[i] = "idle"
    /\ result[i] \in {"nil", "caperr", "fetcherr"}
    /\ app' = [app EXCEPT !.cur = IF result[i] = "nil" THEN i + 1 ELSE Cardinality(Inst) + 1,
                          !.start = IF result[i] # "nil" THEN "error"
                                    ELSE IF i = Cardinality(Inst) THEN "nil" ELSE "none"]
    /\ UNCHANGED <<zone, caps, ownerID, declared, pc, snapshot, owned,
                   toCreate, toUpdate, toDelete, ix, calls, result, clean,
                   ext, log, codec, elsewhere>>

\* reconcileDomain has returned: Start logs an error and goes on with the next
\* domain; after the last one it returns nil
StartNext(i) ==
    /\ app.cur = i /\ pc[i] = "idle"
    /\ result[i] \in {"nil", "caperr", "fetcherr"}
    /\ log' = IF result[i] = "nil" THEN log
              ELSE [log EXCEPT ![i] =
                      Append(@, Entry("error", "failed to reconcile domain", <<>>, ""))]
    /\ app' = [app EXCEPT !.cur = i + 1,
                          !.start = IF i = Cardinality(Inst) THEN "nil" ELSE "none"]
    /\ UNCHANGED <<zone, caps, ownerID, declared, pc, snapshot, owned,
                   toCreate, toUpdate, toDelete, ix, calls, result, clean,
                   ext, codec, elsewhere>>

\* Stop: a.cancel()
Stop ==
    /\ app.provision = "nil" /\ app.ctx = "live"
    /\ app' = [app EXCEPT !.ctx = "cancelled"]
    /\ UNCHANGED <<zone, caps, ownerID, declared, pc, snapshot, owned,
                   toCreate, toUpdate, toDelete, ix, calls, result, clean,
                   ext, log, codec, elsewhere>>

InitStart ==
    /\ zone \in ZonesTwo
    /\ caps \in CapSets
    /\ declared \in {(1 :> c) @@ (2 :> d) : c \in {<<>>, <<wwwA1>>}, d \in {<<apiA>>, <<wwwTXT>>}}
    /\ ownerID \in {[i \in Inst |-> o] : o \in {<<>>, <<"other">>}}
    /\ pc = [i \in Inst |-> "idle"]
    /\ snapshot = [i \in Inst |-> <<>>]
    /\ owned = [i \in Inst |-> <<>>]
    /\ toCreate = [i \in Inst |-> <<>>]
    /\ toUpdate = [i \in Inst |-> <<>>]
    /\ toDelete = [i \in Inst |-> <<>>]
    /\ ix = [i \in Inst |-> NoPlan]
    /\ calls = [i \in Inst |-> <<>>]
    /\ result = [i \in Inst |-> "none"]
    /\ clean = [i \in Inst |-> FALSE]
    /\ ext = 0
    /\ log = [i \in Inst |-> <<>>]
    /\ app \in {[ProvisionedApp EXCEPT !.provision = "none", !.loaded = {}, !.raw = r] :
                   r \in [Inst -> BOOLEAN]}
    /\ codec = <<>>
    /\ elsewhere = <<>>

NextStart ==
    \/ Provision
    \/ StartCall
    \/ \E i \in Inst : StartReconcile(i)
    \/ \E i \in Inst : StartNext(i)
    \/ Stop

SpecStart == InitStart /\ [][NextStart]_vars

(* SpecHalf: one instance, one configuration, passes one after the other;   *)
(* a create may be applied in part, every other call succeeds               *)

InitHalf ==
    /\ zone \in ZonesTwo
    /\ caps \in {{"get", "set", "append", "delete"}, {"get", "set"},
                 {"get", "append", "delete"}}
    /\ declared \in {(1 :> c) @@ (2 :> <<>>) : c \in Configs}
    /\ Provisioned

NextHalf ==
    \/ ReconcileFetch(1)
    \/ DeleteCall(1, TRUE)
    \/ CreateCall(1, TRUE)
    \/ \E part \in {1, 2} : CreateCallPartial(1, part)
    \/ UpdateCall(1, TRUE)
    \/ Return(1)

SpecHalf == InitHalf /\ [][NextHalf]_vars

(* SpecZones: one App whose two domains name two zones.  zone holds the     *)
(* records of the zone of the domain that Start's loop stands at, elsewhere *)
(* the records of the other zone; the loop variable moves on in             *)
(* StartNextZone.                                                           *)

\* the entry of a.Domains whose zone the variable zone holds
Bound == IF app.cur = 0 THEN 1
         ELSE IF app.cur > Cardinality(Inst) THEN Cardinality(Inst)
         ELSE app.cur

\* the records of every zone, by zone name
ZoneRecords == (DomainZone[Bound] :> zone) @@ elsewhere

\* every pass works on the zone of the first domain
StartNextSameZone(i) ==
    /\ app.cur = i /\ pc[i] = "idle"
    /\ result[i] \in {"nil", "caperr", "fetcherr"}
    /\ log' = IF result[i] = "nil" THEN log
              ELSE [log EXCEPT ![i] =
                      Append(@, Entry("error", "failed to reconcile domain", <<>>, ""))]
    /\ app' = [app EXCEPT !.cur = i + 1,
                          !.start = IF i = Cardinality(Inst) THEN "nil" ELSE "none"]
    /\ UNCHANGED <<zone, elsewhere, caps, ownerID, declared, pc, snapshot, owned,
                   toCreate, toUpdate, toDelete, ix, calls, result, clean, ext,
                   codec>>

\* reconcileDomain has returned: Start logs an error, if any, and the loop
\* variable domain moves to the next entry, whose Zone the calls then name
StartNextZone(i) ==
    /\ app.cur = i /\ pc[i] = "idle"
    /\ result[i] \in {"nil", "caperr", "fetcherr"}
    /\ log' = IF result[i] = "nil" THEN log
              ELSE [log EXCEPT ![i] =
                      Append(@, Entry("error", "failed to reconcile domain", <<>>, ""))]
    /\ app' = [app EXCEPT !.cur = i + 1,
                          !.start = IF i = Cardinality(Inst) THEN "nil" ELSE "none"]
    /\ IF i < Cardinality(Inst)
       THEN /\ zone' = elsewhere[DomainZone[i + 1]]
            /\ elsewhere' = [n \in (DOMAIN elsewhere \ {DomainZone[i + 1]})
                                     \cup {DomainZone[i]} |->
                                IF n = DomainZone[i] THEN zone ELSE elsewhere[n]]
       ELSE UNCHANGED <<zone, elsewhere>>
    /\ UNCHANGED <<caps, ownerID, declared, pc, snapshot, owned, toCreate,
                   toUpdate, toDelete, ix, calls, result, clean, ext, codec>>

InitZones ==
    /\ zone \in ZonesTwo
    /\ elsewhere \in {(DomainZone[2] :> z) : z \in ZonesTwo}
    /\ caps \in CapSets
    /\ declared \in {(1 :> c) @@ (2 :> d) :
                        c \in {<<>>, <<wwwA1>>}, d \in {<<apiA>>, <<wwwTXT>>}}
    /\ ownerID = [i \in Inst |-> <<"caddy">>]
    /\ pc = [i \in Inst |-> "idle"]
    /\ snapshot = [i \in Inst |-> <<>>]
    /\ owned = [i \in Inst |-> <<>>]
    /\ toCreate = [i \in Inst |-> <<>>]
    /\ toUpdate = [i \in Inst |-> <<>>]
    /\ toDelete = [i \in Inst |-> <<>>]
    /\ ix = [i \in Inst |-> NoPlan]
    /\ calls = [i \in Inst |-> <<>>]
    /\ result = [i \in Inst |-> "none"]
    /\ clean = [i \in Inst |-> FALSE]
    /\ ext = 0
    /\ log = [i \in Inst |-> <<>>]
    /\ app = ProvisionedApp
    /\ codec = <<>>

NextZones ==
    \/ StartCall
    \/ \E i \in Inst : StartReconcile(i)
    \/ \E i \in Inst : StartNextZone(i)

SpecZones == InitZones /\ [][NextZones]_vars

(* SpecMalformed: passes over configurations that declare an address record *)
(* whose value is no IP literal; calls may fail                             *)

wwwBad == Record(www, "A", <<"not-an-ip">>, 0)

apiBad6 == Record(api, "AAAA", <<"not-an-ip">>, 60)

ConfigsMalformed ==
    {<<wwwBad>>, <<wwwBad, apiA>>, <<apiA, wwwBad>>, <<wwwBad, wwwTXT>>,
     <<apiBad6>>, <<apiBad6, wwwA1>>, <<wwwBad, apiBad6>>}

\* zones of earlier passes: nothing, owned records with a good value, and a
\* malformed value that a provider took as it came
ZonesMalformed ==
    {<<>>,
     <<ZoneRR(txtPrefix \o www, "TXT", 300, ExpectedValue(<<"caddy">>)),
       ZoneRR(www, "A", 300, <<"192.0.2.1">>)>>,
     <<ZoneRR(txtPrefix \o www, "TXT", 300, ExpectedValue(<<"caddy">>)),
       ZoneRR(www, "A", 300, <<"not-an-ip">>)>>,
     <<ZoneRR(txtPrefix \o api, "TXT", 300, ExpectedValue(<<"caddy">>)),
       ZoneRR(api, "AAAA", 300, <<"2001:db8::1">>),
       ZoneRR(api, "A", 60, <<"192.0.2.1">>)>>}

InitMalformed ==
    /\ zone \in ZonesMalformed
    /\ caps \in {{"get", "set", "append", "delete"}, {"get", "set"},
                 {"get", "append", "delete"}}
    /\ declared \in {(1 :> c) @@ (2 :> <<>>) : c \in ConfigsMalformed}
    /\ Provisioned

NextMalformed ==
    \/ ReconcileFetch(1)
    \/ \E ok \in BOOLEAN : DeleteCall(1, ok)
    \/ \E ok \in BOOLEAN : CreateCall(1, ok)
    \/ \E ok \in BOOLEAN : UpdateCall(1, ok)
    \/ Return(1)

SpecMalformed == InitMalformed /\ [][NextMalformed]_vars

(* SpecCodec: the codec and the marker functions on their own.  An input is *)
(* a declared record, the owner ID of the instance that writes its marker,  *)
(* the owner ID of the instance that reads the zone, and the form in which  *)
(* the provider hands the marker's payload back.                            *)

CodecRecords ==
    {Record(n, t, v, ttl) :
        n \in {www, txtPrefix \o www},
        t \in {"A", "AAAA", "TXT", "CNAME", "MX", "SRV"},
        v \in {<<"192.0.2.1">>, <<"2001:db8::1">>, <<"2001:DB8::1">>, <<"hello">>,
               <<"host.example.com.">>, <<"not-an-ip">>},
        ttl \in {0, 60}}

CodecOwners ==
    {<<"caddy">>, <<"other">>, <<"caddy", ",heritage=", "caddy-dns-register">>}

\* the payload a provider returns for a stored marker payload
Returned(data, form) ==
    CASE form = "bare" -> data
      [] form = "quoted" -> Quoted(data)
      [] form = "quoted twice" -> Quoted(Quoted(data))
      [] form = "truncated" -> SubSeq(data, 1, Len(data) - 1)

InitCodec ==
    /\ codec \in {[stage |-> "in", rec |-> r, owner |-> o, reader |-> x, form |-> f,
                   lib |-> <<>>, marker |-> <<>>, snap |-> <<>>, val |-> <<>>,
                   claimed |-> {}, seen |-> <<>>] :
                     r \in CodecRecords, o \in CodecOwners, x \in CodecOwners,
                     f \in {"bare", "quoted", "quoted twice", "truncated"}}
    /\ zone = <<>>
    /\ caps = {"get", "set", "append", "delete"}
    /\ declared = [i \in Inst |-> <<>>]
    /\ ownerID = (1 :> <<"caddy">>) @@ (2 :> <<"other">>)
    /\ pc = [i \in Inst |-> "idle"]
    /\ snapshot = [i \in Inst |-> <<>>]
    /\ owned = [i \in Inst |-> <<>>]
    /\ toCreate = [i \in Inst |-> <<>>]
    /\ toUpdate = [i \in Inst |-> <<>>]
    /\ toDelete = [i \in Inst |-> <<>>]
    /\ ix = [i \in Inst |-> NoPlan]
    /\ calls = [i \in Inst |-> <<>>]
    /\ result = [i \in Inst |-> "none"]
    /\ clean = [i \in Inst |-> FALSE]
    /\ ext = 0
    /\ log = [i \in Inst |-> <<>>]
    /\ app = ProvisionedApp
    /\ elsewhere = <<>>

CodecRest ==
    UNCHANGED <<zone, caps, ownerID, declared, pc, snapshot, owned, toCreate,
                toUpdate, toDelete, ix, calls, result, clean, ext, log, app,
                elsewhere>>

\* the default TTL is written into the declared record itself
EncodeInPlace ==
    /\ codec.stage = "in"
    /\ codec' = [codec EXCEPT !.stage = "lib",
                              !.rec.TTL = IF @ = 0 THEN 300 ELSE @,
                              !.lib = toLibdnsRecord(codec.rec),
                              !.marker = makeTXTMarker(codec.owner, codec.rec.Name)]
    /\ CodecRest

\* the writer builds the provider record and the marker
Encode ==
    /\ codec.stage = "in"
    /\ codec' = [codec EXCEPT !.stage = "lib",
                              !.lib = toLibdnsRecord(codec.rec),
                              !.marker = makeTXTMarker(codec.owner, codec.rec.Name)]
    /\ CodecRest

\* the provider stores both and hands them out again
Store ==
    /\ codec.stage = "lib"
    /\ codec' = [codec EXCEPT !.stage = "stored",
                              !.snap = <<LibTXT(codec.marker.Name,
                                                Returned(codec.marker.Data, codec.form),
                                                codec.marker.TTL),
                                         codec.lib>>]
    /\ CodecRest

\* the reader extracts the value and classifies the two records
Decode ==
    /\ codec.stage = "stored"
    /\ codec' = [codec EXCEPT !.stage = "out",
                              !.val = extractValue(codec.lib),
                              !.claimed = OwnMarkers(codec.reader, codec.snap),
                              !.seen = parseOwnedRecords(codec.reader, codec.snap)]
    /\ CodecRest

NextCodec ==
    \/ Encode
    \/ Store
    \/ Decode

SpecCodec == InitCodec /\ [][NextCodec]_vars

(* SpecOrder: parseOwnedRecords on a list of fetched records and on a       *)
(* permutation of the same list.                                            *)

\* the fetched records of the zones of at most MaxSnapshot records
Snapshots ==
    {GetRecords(Pick(ZoneUniverse, P, 1)) :
        P \in {Q \in SUBSET DOMAIN ZoneUniverse : Cardinality(Q) <= MaxSnapshot}}

InitOrder ==
    /\ codec \in {[stage |-> "in", snap |-> sn,
                   perm |-> [k \in DOMAIN sn |-> sn[p[k]]],
                   first |-> <<>>, second |-> <<>>] :
                     <<sn, p>> \in UNION {{<<t, q>> : q \in Perms(DOMAIN t)} : t \in Snapshots}}
    /\ zone = <<>>
    /\ caps = {"get", "set", "append", "delete"}
    /\ declared = [i \in Inst |-> <<>>]
    /\ ownerID = (1 :> <<"caddy">>) @@ (2 :> <<"other">>)
    /\ pc = [i \in Inst |-> "idle"]
    /\ snapshot = [i \in Inst |-> <<>>]
    /\ owned = [i \in Inst |-> <<>>]
    /\ toCreate = [i \in Inst |-> <<>>]
    /\ toUpdate = [i \in Inst |-> <<>>]
    /\ toDelete = [i \in Inst |-> <<>>]
    /\ ix = [i \in Inst |-> NoPlan]
    /\ calls = [i \in Inst |-> <<>>]
    /\ result = [i \in Inst |-> "none"]
    /\ clean = [i \in Inst |-> FALSE]
    /\ ext = 0
    /\ log = [i \in Inst |-> <<>>]
    /\ app = ProvisionedApp
    /\ elsewhere = <<>>

\* the pass classifies the records in the order the provider returned them
Classify ==
    /\ codec.stage = "in"
    /\ codec' = [codec EXCEPT !.stage = "one",
                              !.first = parseOwnedRecords(ownerID[1], codec.snap)]
    /\ CodecRest

\* and the same records returned in another order
ClassifyPermuted ==
    /\ codec.stage = "one"
    /\ codec' = [codec EXCEPT !.stage = "both",
                              !.second = parseOwnedRecords(ownerID[1], codec.perm)]
    /\ CodecRest

NextOrder ==
    \/ Classify
    \/ ClassifyPermuted

SpecOrder == InitOrder /\ [][NextOrder]_vars

----------------------------------------------------------------------------
(* Claims about classification and diff, checked under SpecAny *)

\* the (name, type) pairs of an owned index and of a declared list
OwnedPairs(O) == {<<O[k].Name, O[k].Type>> : k \in DOMAIN O}

DeclaredPairs(D) == {<<D[k].Name, D[k].Type>> : k \in DOMAIN D}

\* the record an owned index holds for a pair
OwnedAt(O, p) == CHOOSE r \in {O[k] : k \in DOMAIN O} : <<r.Name, r.Type>> = p

\* the last record a declared list holds for a pair
DeclaredAt(D, p) ==
    D[CHOOSE k \in DOMAIN D :
        /\ <<D[k].Name, D[k].Type>> = p
        /\ \A j \in DOMAIN D : j > k => <<D[j].Name, D[j].Type>> # p]

PairKey(p) == p[1] \o <<":">> \o <<p[2]>>

\* C4: the plan of a pass is the three-way difference of the owned index and
\* the declared list: toDelete is the owned pairs that are not declared, toCreate
\* the declared pairs that are not owned, toUpdate the pairs in both whose value
\* differs or whose declared TTL is set (> 0) and differs; an unset TTL alone
\* updates nothing, and a pair equal in value and unset-or-equal in TTL is in no set.
DiffCorrect ==
    pc[1] = "apply" =>
        LET O == owned[1]
            D == declared[1]
            op == OwnedPairs(O)
            dp == DeclaredPairs(D)
            changed == {p \in op \cap dp :
                          \/ OwnedAt(O, p).Value # DeclaredAt(D, p).Value
                          \/ /\ DeclaredAt(D, p).TTL > 0
                             /\ DeclaredAt(D, p).TTL # OwnedAt(O, p).TTL}
        IN /\ SeqToSet(toDelete[1]) = {PairKey(p) : p \in op \ dp}
           /\ SeqToSet(toCreate[1]) = {DeclaredAt(D, p) : p \in dp \ op}
           /\ SeqToSet(toUpdate[1]) = {DeclaredAt(D, p) : p \in changed}
           /\ \A p \in op \cap dp :
                (/\ OwnedAt(O, p).Value = DeclaredAt(D, p).Value
                 /\ DeclaredAt(D, p).TTL = 0)
                => /\ PairKey(p) \notin SeqToSet(toDelete[1])
                   /\ DeclaredAt(D, p) \notin SeqToSet(toCreate[1]) \cup SeqToSet(toUpdate[1])

\* a pass whose diff has a delete, an update on TTL grounds alone and a no-op or create
DiffCorrectWitness ==
    /\ pc[1] = "apply"
    /\ toDelete[1] # <<>>
    /\ \E k \in DOMAIN toUpdate[1] :
         LET r == toUpdate[1][k]
         IN /\ Key(r.Name, r.Type) \in DOMAIN owned[1]
            /\ owned[1][Key(r.Name, r.Type)].Value = r.Value
            /\ r.TTL > 0

\* the TXT records of a snapshot that sit at the marker name of n
MarkersFor(snap, n) ==
    {RR(snap[k]) : k \in {j \in DOMAIN snap :
        RR(snap[j]).Type = "TXT" /\ RR(snap[j]).Name = txtPrefix \o n}}

\* the owner IDs that a payload may name
OwnerIDs == {ownerID[i] : i \in Inst}

\* a payload that encodes owner o, bare or quoted once
Encodes(data, o) == data = ExpectedValue(o) \/ data = Quoted(ExpectedValue(o))

DeleteRequests(i) ==
    {calls[i][k].recs : k \in {j \in DOMAIN calls[i] : calls[i][j].op = "delete"}}

\* C6: a record at whose name the snapshot holds no marker at all is not in the
\* owned index, its key is not in toDelete, and no delete request names it,
\* declared or not, and also when nothing is declared.
ManualProtected ==
    pc[1] = "apply" =>
        \A k \in DOMAIN snapshot[1] :
            LET rr == RR(snapshot[1][k])
            IN (~HasPrefix(rr.Name, txtPrefix) /\ MarkersFor(snapshot[1], rr.Name) = {})
               => /\ Key(rr.Name, rr.Type) \notin DOMAIN owned[1]
                  /\ Key(rr.Name, rr.Type) \notin SeqToSet(toDelete[1])
                  /\ \A req \in DeleteRequests(1) : \A j \in DOMAIN req :
                         ~(RR(req[j]).Name = rr.Name /\ RR(req[j]).Type = rr.Type)

\* nothing is declared, the snapshot holds an unmarked record, and the pass has
\* issued a delete request for something it owns
ManualProtectedWitness ==
    /\ pc[1] = "apply"
    /\ declared[1] = <<>>
    /\ DeleteRequests(1) # {}
    /\ \E k \in DOMAIN snapshot[1] :
         /\ ~HasPrefix(RR(snapshot[1][k]).Name, txtPrefix)
         /\ MarkersFor(snapshot[1], RR(snapshot[1][k]).Name) = {}

----------------------------------------------------------------------------
(* Claims about the apply part, checked under SpecAny *)

IsDelete(c) == c.op = "delete"

\* a create writes the record and its marker, an update the record alone
IsCreate(c) == c.op \in {"set", "append"} /\ Len(c.recs) = 2

IsUpdate(c) == c.op = "set" /\ Len(c.recs) = 1

\* C9: in a pass, every delete request comes before any create request and
\* every create request before any update request.
PhaseOrder ==
    \A a, b \in DOMAIN calls[1] :
        a < b =>
            /\ IsDelete(calls[1][b]) => ~IsCreate(calls[1][a]) /\ ~IsUpdate(calls[1][a])
            /\ IsCreate(calls[1][b]) => ~IsUpdate(calls[1][a])

\* a pass that has issued a delete, a create and an update
PhaseOrderWitness ==
    /\ \E k \in DOMAIN calls[1] : IsDelete(calls[1][k])
    /\ \E k \in DOMAIN calls[1] : IsCreate(calls[1][k])
    /\ \E k \in DOMAIN calls[1] : IsUpdate(calls[1][k])

\* all loops of the pass have run
PassEnd(i) == pc[i] = "apply" /\ NextOp(i) = "return"

\* the k-th call of each kind is the call for the k-th item of its slice
CallsMatchPlan(i) ==
    LET dels == SelectSeq(calls[i], IsDelete)
        cres == SelectSeq(calls[i], IsCreate)
        upds == SelectSeq(calls[i], IsUpdate)
    IN /\ Len(dels) <= Len(toDelete[i])
       /\ Len(cres) <= Len(toCreate[i])
       /\ Len(upds) <= Len(toUpdate[i])
       /\ \A k \in DOMAIN dels :
            RR(dels[k].recs[1]).Name \o <<":", RR(dels[k].recs[1]).Type>> = toDelete[i][k]
       /\ \A k \in DOMAIN cres :
            /\ RR(cres[k].recs[1]).Name = toCreate[i][k].Name
            /\ RR(cres[k].recs[1]).Data = toCreate[i][k].Value
       /\ \A k \in DOMAIN upds :
            /\ RR(upds[k].recs[1]).Name = toUpdate[i][k].Name
            /\ RR(upds[k].recs[1]).Data = toUpdate[i][k].Value
       /\ PassEnd(i) =>
            /\ Len(dels) = (IF hasDeleter THEN Len(toDelete[i]) ELSE 0)
            /\ Len(cres) = Len(toCreate[i])
            /\ Len(upds) = (IF hasSetter THEN Len(toUpdate[i]) ELSE 0)

\* C10: whatever calls have failed, a pass issues exactly one call for every
\* item of each phase whose capability the provider has; a failed write is no
\* error of the zone, and the pass ends by returning nil.
FailureIsolation ==
    /\ [](pc[1] = "apply" => CallsMatchPlan(1) /\ result[1] = "running")
    /\ [][pc[1] = "apply" /\ pc'[1] # "apply" => PassEnd(1) /\ result'[1] = "nil"]_vars

\* a finished pass whose first call failed and that went on through two phases
FailureIsolationWitness ==
    /\ PassEnd(1)
    /\ Len(calls[1]) >= 4
    /\ ~calls[1][2].ok
    /\ IsDelete(calls[1][2])
    /\ \E k \in DOMAIN calls[1] : IsCreate(calls[1][k]) /\ ~calls[1][k].ok
    /\ \E k \in DOMAIN calls[1] : IsUpdate(calls[1][k])

----------------------------------------------------------------------------
(* Claims about records of other writers, checked under Spec *)

\* the zone holds a marker with instance i's payload for the name n
MarkedBy(i, z, n) ==
    \E k \in DOMAIN z :
        /\ z[k].Type = "TXT"
        /\ z[k].Name = txtPrefix \o n
        /\ Encodes(z[k].Data, ownerID[i])

\* the pass of instance i fetched the zone record r, and no marker of i for its name
SeenUnmarked(i, r) ==
    /\ \E k \in DOMAIN snapshot[i] : RR(snapshot[i][k]) = r
    /\ \A m \in MarkersFor(snapshot[i], r.Name) : ~Encodes(m.Data, ownerID[i])

\* C1: a data record that is in the zone without a marker of instance 1 (made by
\* hand or marked by another owner), and was so when the pass fetched the zone,
\* is still there, with its value and TTL, after every provider call of
\* instance 1, whatever instance 1 declares.
ForeignUntouched ==
    [][calls'[1] # calls[1] =>
          \A k \in DOMAIN zone :
              (/\ ~HasPrefix(zone[k].Name, txtPrefix)
               /\ ~MarkedBy(1, zone, zone[k].Name)
               /\ SeenUnmarked(1, zone[k]))
              => \E j \in DOMAIN zone' : zone'[j] = zone[k]]_vars

----------------------------------------------------------------------------
(* Claims about successive passes, checked under SpecLife *)

\* no name of the configuration lies in the marker namespace
NoPfxDeclared(i) ==
    \A k \in DOMAIN declared[i] : ~HasPrefix(declared[i][k].Name, txtPrefix)

\* the plan a pass of instance i would compute from the zone as it stands is empty
ReplanEmpty(i) ==
    LET own == parseOwnedRecords(ownerID[i], GetRecords(zone))
        desired == Desired(declared[i])
    IN /\ DOMAIN own \subseteq DOMAIN desired
       /\ \A key \in DOMAIN desired :
            key \in DOMAIN own /\ ~NeedsUpdate(own[key], desired[key])

\* C3: when a pass has applied its plan with every call succeeding and nobody
\* else has written to the zone (the provider can set and delete, the declared
\* names are ordinary names), fetching, classifying and diffing again against
\* the same declared list gives empty toCreate, toUpdate and toDelete.
Idempotent ==
    (/\ PassEnd(1)
     /\ clean[1]
     /\ hasSetter /\ hasDeleter
     /\ NoPfxDeclared(1))
    => ReplanEmpty(1)

\* the records of z under the marker prefix are markers of ordinary names
OnlyMarkersUnderPrefix(z) ==
    \A k \in DOMAIN z :
        HasPrefix(z[k].Name, txtPrefix)
        => /\ ~HasPrefix(TrimPrefix(z[k].Name, txtPrefix), txtPrefix)
           /\ \E o \in OwnerIDs : Encodes(z[k].Data, o)

\* C7: the zone was empty before the first pass and only instance 1 writes to
\* it, so every record in it was created by a pass that declared it; when a
\* pass ends (all calls succeeded, the provider can set and delete, no name
\* in the marker namespace is or was declared), a record that the
\* configuration no longer declares is gone from the zone.
LifecycleRemoved ==
    (/\ PassEnd(1)
     /\ clean[1]
     /\ hasSetter /\ hasDeleter
     /\ NoPfxDeclared(1)
     /\ OnlyMarkersUnderPrefix(zone))
    => \A k \in DOMAIN zone :
         ~HasPrefix(zone[k].Name, txtPrefix)
         => Key(zone[k].Name, zone[k].Type) \in DOMAIN Desired(declared[1])

----------------------------------------------------------------------------
(* Claim about convergence, checked under SpecConv *)

\* C8: whatever the zone holds when the other writers stop, after finitely
\* many passes the zone stays in a state where every declared record is owned
\* by instance 1 with its declared value, nothing undeclared is owned, and the
\* plan of every pass is empty.
Converges == <>[]ReplanEmpty(1)

\* the same, for configurations none of whose names lies in the marker namespace
ConvergesOrdinaryNames == NoPfxDeclared(1) => <>[]ReplanEmpty(1)

----------------------------------------------------------------------------
(* Claim about two instances, checked under SpecTwo *)

KeyDisjoint ==
    DOMAIN Desired(declared[1]) \cap DOMAIN Desired(declared[2]) = {}

\* the zone record r is a record instance j declares, or the marker of one
CreatedBy(j, r) ==
    \/ /\ ~HasPrefix(r.Name, txtPrefix)
       /\ Key(r.Name, r.Type) \in DOMAIN Desired(declared[j])
    \/ /\ r.Type = "TXT"
       /\ Encodes(r.Data, ownerID[j])
       /\ \E k \in DOMAIN declared[j] : r.Name = txtPrefix \o declared[j][k].Name

\* C2: with configurations disjoint by (name, type) key, no provider call of
\* one instance removes or replaces a record the other instance created, or
\* the marker of such a record.
OthersKept ==
    [][KeyDisjoint =>
          \A i, j \in Inst :
              (i # j /\ calls'[i] # calls[i]) =>
                  \A k \in DOMAIN zone :
                      CreatedBy(j, zone[k]) => \E n \in DOMAIN zone' : zone'[n] = zone[k]]_vars

----------------------------------------------------------------------------
(* Claims about Provision, Start and Stop, checked under SpecStart *)

\* Start has logged the failure of domain i
FailureLogged(i) ==
    \E k \in DOMAIN log[i] :
        log[i][k].level = "error" /\ log[i][k].msg = "failed to reconcile domain"

\* C11: when GetRecords fails for a domain, the pass over it issues no set,
\* append or delete call and leaves the zone alone; once Start has moved on
\* the failure is in the log; Start returns only after reconcileDomain has
\* run for every domain, and what it returns is nil, never an error.
FetchFailureIsolated ==
    /\ [](\A i \in Inst :
            result[i] = "fetcherr" =>
                /\ pc[i] = "idle" /\ calls[i] = <<>>
                /\ app.cur > i => FailureLogged(i))
    /\ [](app.start \in {"none", "nil"})
    /\ [](app.start = "nil" => \A i \in Inst : result[i] # "none")
    /\ [][\A i \in Inst :
            (result'[i] = "fetcherr" /\ result[i] # "fetcherr") =>
                zone' = zone /\ calls' = calls]_vars

\* the fetch failed for the first domain, its failure is logged, and the pass
\* over the second domain has created a record
FetchFailureIsolatedWitness ==
    /\ result[1] = "fetcherr"
    /\ FailureLogged(1)
    /\ PassEnd(2)
    /\ \E k \in DOMAIN calls[2] : IsCreate(calls[2][k]) /\ calls[2][k].ok

\* C12: Provision returns nil only for a provider that can fetch and can set
\* or append; a provider that lacks fetch, or lacks both set and append, makes
\* Provision fail.
SetupRejected ==
    app.provision = "nil" => hasGetter /\ (hasSetter \/ hasAppender)

\* C14: once a.ctx is cancelled, a pass that is in its apply part issues no
\* further provider call.
CancelStopsCalls ==
    [][\A i \in Inst :
         (app.ctx = "cancelled" /\ pc[i] = "apply" /\ pc'[i] = "apply")
             => calls'[i] = calls[i]]_vars

----------------------------------------------------------------------------
(* Claim about the log, checked under SpecAny *)

\* the log of the pass of instance i has an entry about the record name/type
\* with one of the two messages
Reported(i, name, type, msgs) ==
    \E k \in DOMAIN log[i] :
        log[i][k].name = name /\ log[i][k].type = type /\ log[i][k].msg \in msgs

\* the log has a warning or an error about the pass, not about one record
PhaseReported(i) ==
    \E k \in DOMAIN log[i] : log[i][k].level \in {"warn", "error"} /\ log[i][k].name = <<>>

\* C13: when a pass ends, every item of toDelete, toCreate and toUpdate has its
\* own log entry naming the record, or its phase was skipped for want of the
\* capability and the log says so.
EveryOutcomeReported ==
    PassEnd(1) =>
        /\ \A k \in DOMAIN toCreate[1] :
             Reported(1, toCreate[1][k].Name, toCreate[1][k].Type,
                      {"created record", "failed to create record"})
        /\ \A k \in DOMAIN toDelete[1] :
             IF hasDeleter
             THEN Reported(1, owned[1][toDelete[1][k]].Name, owned[1][toDelete[1][k]].Type,
                           {"deleted record", "failed to delete record"})
             ELSE PhaseReported(1)
        /\ \A k \in DOMAIN toUpdate[1] :
             IF hasSetter
             THEN Reported(1, toUpdate[1][k].Name, toUpdate[1][k].Type,
                           {"updated record", "failed to update record"})
             ELSE PhaseReported(1)

----------------------------------------------------------------------------
(* Claim about writes applied in part, checked under SpecHalf *)

\* the data records of z at the (name, type) of the record r
DataAt(z, r) ==
    {k \in DOMAIN z : z[k].Name = r.Name /\ z[k].Type = r.Type}

\* z holds the record r without a marker of instance i, or a marker of
\* instance i for the name of r without any record of r's name and type
HalfApplied(i, z, r) ==
    \/ /\ \E k \in DataAt(z, r) : z[k].Data = r.Value
       /\ ~MarkedBy(i, z, r.Name)
    \/ /\ DataAt(z, r) = {}
       /\ MarkedBy(i, z, r.Name)

\* C15: when a pass whose calls all succeeded ends (the provider can set and
\* delete), every declared record that the zone held half-applied when the
\* pass fetched it is in the zone exactly once, with the declared value,
\* together with this instance's marker.
HalfRepaired ==
    (PassEnd(1) /\ clean[1] /\ hasSetter /\ hasDeleter) =>
        \A key \in DOMAIN Desired(declared[1]) :
            LET r == Desired(declared[1])[key]
            IN HalfApplied(1, RRs(snapshot[1]), r) =>
                 /\ Cardinality(DataAt(zone, r)) = 1
                 /\ \A k \in DataAt(zone, r) : zone[k].Data = r.Value
                 /\ MarkedBy(1, zone, r.Name)

\* the same, for configurations none of whose names lies in the marker namespace
HalfRepairedOrdinaryNames ==
    NoPfxDeclared(1) => HalfRepaired

----------------------------------------------------------------------------
(* Claims about the codec and the markers, checked under SpecCodec *)

\* v is a well-formed value for a record of the given type
ValidValue(type, v) ==
    CASE type = "A" -> ParseAddrOk(v) /\ ~Is6(ParseAddr(v))
      [] type = "AAAA" -> ParseAddrOk(v) /\ Is6(ParseAddr(v))
      [] OTHER -> TRUE

RoundTripKinds == {"A", "AAAA", "CNAME", "TXT"}

\* C16 as stated: for a record of kind A, AAAA, CNAME or TXT with a valid
\* value, the value extracted from its provider record is the declared value.
RoundTrip ==
    (/\ codec.stage = "out"
     /\ codec.rec.Type \in RoundTripKinds
     /\ ValidValue(codec.rec.Type, codec.rec.Value)) =>
        codec.val = codec.rec.Value

\* C16: for a record of kind A, AAAA, CNAME or TXT with a valid value, the
\* value extracted from its provider record is the declared value for CNAME
\* and TXT and the canonical text of the declared address for A and AAAA, so
\* it is the declared value exactly when the address is declared in canonical
\* text.
RoundTripCanonical ==
    (/\ codec.stage = "out"
     /\ codec.rec.Type \in RoundTripKinds
     /\ ValidValue(codec.rec.Type, codec.rec.Value)) =>
        LET v == codec.rec.Value
            canonical == codec.rec.Type \in {"CNAME", "TXT"} \/ AddrTable[v] = v
        IN /\ codec.val = (IF codec.rec.Type \in {"A", "AAAA"} THEN AddrTable[v] ELSE v)
           /\ (codec.val = v) <=> canonical

RoundTripCanonicalWitness ==
    /\ codec.stage = "out"
    /\ codec.rec.Type = "AAAA"
    /\ codec.rec.Value = <<"2001:DB8::1">>
    /\ codec.val = <<"2001:db8::1">>

\* C17: the provider record built from a declared record reports, through
\* its RR view, the name and the type of the declared record.
TypePreserved ==
    codec.stage # "in" =>
        /\ RR(codec.lib).Name = codec.rec.Name
        /\ RR(codec.lib).Type = codec.rec.Type

\* the same, for records whose A or AAAA value is of the declared family or
\* does not parse at all
TypePreservedMatchingFamily ==
    (\/ codec.rec.Type \notin {"A", "AAAA"}
     \/ ~ParseAddrOk(codec.rec.Value)
     \/ ValidValue(codec.rec.Type, codec.rec.Value)) => TypePreserved

\* C18: the marker for a name is the TXT record named "_cdr." + name with the
\* payload "owner=" + owner ID + ",heritage=caddy-dns-register" and a TTL of
\* 300 seconds; a reader takes a marker payload for its own exactly when the
\* payload is that string for the reader's own ID, bare or in one pair of
\* double quotes; so a marker handed back bare or quoted once is taken by the
\* reader exactly when the reader has the writer's owner ID, and only then is
\* the record of that name owned.
MarkerFormat ==
    codec.stage = "out" =>
        LET payload == RR(codec.snap[1]).Data
            want == <<"owner=">> \o codec.reader \o <<",heritage=", "caddy-dns-register">>
            taken == codec.rec.Name \in codec.claimed
        IN /\ RR(codec.marker) =
                [Name |-> <<"_cdr.">> \o codec.rec.Name,
                 Type |-> "TXT",
                 TTL |-> 300,
                 Data |-> <<"owner=">> \o codec.owner \o <<",heritage=", "caddy-dns-register">>]
           /\ taken <=> payload \in {want, <<"\"">> \o want \o <<"\"">>}
           /\ codec.form \in {"bare", "quoted"} => (taken <=> codec.reader = codec.owner)
           /\ ~taken => codec.seen = <<>>
           /\ (taken /\ ~HasPrefix(codec.rec.Name, txtPrefix)) =>
                  DOMAIN codec.seen = {Key(codec.rec.Name, RR(codec.lib).Type)}

MarkerFormatWitness ==
    /\ codec.stage = "out"
    /\ codec.form = "quoted"
    /\ codec.reader = codec.owner
    /\ codec.owner = <<"caddy", ",heritage=", "caddy-dns-register">>
    /\ codec.rec.Name \in codec.claimed
    /\ codec.seen # <<>>

----------------------------------------------------------------------------
(* Claims about the requests of the delete and create loops, under SpecAny *)

\* the marker of instance i for a name, as it goes over the wire
WireMarker(i, name) ==
    [kind |-> "TXT", Name |-> <<"_cdr.">> \o name, Type |-> "", TTL |-> 300,
     Data |-> <<"owner=">> \o ownerID[i] \o <<",heritage=", "caddy-dns-register">>,
     Pref |-> ""]

DeleteCallsOf(i) == {k \in DOMAIN calls[i] : calls[i][k].op = "delete"}

\* the request carries a record of this name and type with this data, and
\* the marker of instance i for the name, and nothing else
CarriesPair(i, call, name, type, data) ==
    /\ Len(call.recs) = 2
    /\ RR(call.recs[1]).Name = name
    /\ RR(call.recs[1]).Type = type
    /\ RR(call.recs[1]).Data = data
    /\ call.recs[2] = WireMarker(i, name)

\* C19: when a pass ends on a provider that can delete, the delete requests
\* are as many as the keys of toDelete and each key has exactly one request,
\* made of the data record as the pass saw it in the zone (name, type and
\* value of the owned index, found in the fetched records) and this
\* instance's marker for its name; on a provider that cannot delete there is
\* no delete request.
DeleteRequestsExact ==
    PassEnd(1) =>
        IF hasDeleter
        THEN /\ Cardinality(DeleteCallsOf(1)) = Len(toDelete[1])
             /\ \A j \in DOMAIN toDelete[1] :
                  LET o == owned[1][toDelete[1][j]]
                  IN /\ Cardinality({k \in DeleteCallsOf(1) :
                            CarriesPair(1, calls[1][k], o.Name, o.Type, o.Value)}) = 1
                     /\ \E n \in DOMAIN snapshot[1] :
                            /\ RR(snapshot[1][n]).Name = o.Name
                            /\ RR(snapshot[1][n]).Type = o.Type
                            /\ RR(snapshot[1][n]).Data = o.Value
        ELSE DeleteCallsOf(1) = {}

DeleteRequestsExactWitness ==
    /\ PassEnd(1)
    /\ hasDeleter
    /\ Len(toDelete[1]) >= 1
    /\ declared[1] # <<>>
    /\ \E k \in DeleteCallsOf(1) :
           /\ calls[1][k].recs[2] = WireMarker(1, RR(calls[1][k].recs[1]).Name)
           /\ \A n \in DOMAIN declared[1] :
                  declared[1][n].Value # RR(calls[1][k].recs[1]).Data

CreateCallsOf(i) == {k \in DOMAIN calls[i] : calls[i][k].phase = "create"}

\* C20: when a pass ends, the writes of the create loop are as many as the
\* records of toCreate and each record has exactly one write, made of the
\* data record and this instance's marker for its name; every such write is
\* a SetRecords call when the provider has SetRecords and an AppendRecords
\* call otherwise.
CreateRequestsExact ==
    PassEnd(1) =>
        /\ Cardinality(CreateCallsOf(1)) = Len(toCreate[1])
        /\ \A j \in DOMAIN toCreate[1] :
             LET r == toCreate[1][j]
             IN Cardinality({k \in CreateCallsOf(1) :
                    CarriesPair(1, calls[1][k], r.Name, r.Type, r.Value)}) = 1
        /\ \A k \in CreateCallsOf(1) :
             calls[1][k].op = (IF "set" \in caps THEN "set" ELSE "append")

CreateRequestsExactWitness ==
    /\ PassEnd(1)
    /\ "set" \notin caps
    /\ Len(toCreate[1]) >= 2
    /\ \A k \in CreateCallsOf(1) : calls[1][k].op = "append"

----------------------------------------------------------------------------
(* Claim about the requests of the update loop, under SpecAny *)

UpdateCallsOf(i) == {k \in DOMAIN calls[i] : calls[i][k].phase = "update"}

\* the marker records of a zone, in zone order
MarkerRRs(z) ==
    SelectSeq(z, LAMBDA r : r.Type = "TXT" /\ HasPrefix(r.Name, txtPrefix))

\* the keys of a sequence of records
KeysOf(recs) == [k \in DOMAIN recs |-> Key(recs[k].Name, recs[k].Type)]

Occurrences(seq, x) == Cardinality({k \in DOMAIN seq : seq[k] = x})

\* when a pass ends: with SetRecords, one single-record set per record of
\* toUpdate, carrying the declared value; without SetRecords, no call of the
\* update loop and no call at all for a record of toUpdate; and a key owned
\* with another value than the declared one is in toUpdate once and neither
\* in toCreate nor in toDelete
UpdatePlanAndCalls ==
    PassEnd(1) =>
        /\ IF "set" \in caps
           THEN /\ Cardinality(UpdateCallsOf(1)) = Len(toUpdate[1])
                /\ \A j \in DOMAIN toUpdate[1] :
                     LET r == toUpdate[1][j]
                     IN Cardinality({k \in UpdateCallsOf(1) :
                            /\ calls[1][k].op = "set"
                            /\ Len(calls[1][k].recs) = 1
                            /\ RR(calls[1][k].recs[1]).Name = r.Name
                            /\ RR(calls[1][k].recs[1]).Type = r.Type
                            /\ RR(calls[1][k].recs[1]).Data = r.Value}) = 1
                /\ \A k \in UpdateCallsOf(1) : \A n \in DOMAIN calls[1][k].recs :
                     ~HasPrefix(RR(calls[1][k].recs[n]).Name, txtPrefix)
           ELSE /\ UpdateCallsOf(1) = {}
                /\ \A j \in DOMAIN toUpdate[1] : \A k \in DOMAIN calls[1] :
                     \A n \in DOMAIN calls[1][k].recs :
                        Key(RR(calls[1][k].recs[n]).Name, RR(calls[1][k].recs[n]).Type)
                            # KeysOf(toUpdate[1])[j]
        /\ \A key \in DOMAIN owned[1] \cap DOMAIN Desired(declared[1]) :
             owned[1][key].Value # Desired(declared[1])[key].Value =>
                /\ Occurrences(KeysOf(toUpdate[1]), key) = 1
                /\ Occurrences(KeysOf(toCreate[1]), key) = 0
                /\ Occurrences(toDelete[1], key) = 0

\* C21: each record of toUpdate gets exactly one SetRecords call that holds
\* only the data record with the declared value, no marker; a step of the
\* update loop leaves every marker of the zone as it was; a key whose value
\* changed is planned as an update only; a provider without SetRecords gets
\* no update write.
UpdateRequests ==
    /\ []UpdatePlanAndCalls
    /\ [][(pc[1] = "apply" /\ ix'[1].u = ix[1].u + 1) =>
              MarkerRRs(zone') = MarkerRRs(zone)]_vars

UpdateRequestsWitness ==
    /\ PassEnd(1)
    /\ "set" \in caps
    /\ Len(toUpdate[1]) >= 1
    /\ MarkerRRs(zone) # <<>>
    /\ \E k \in UpdateCallsOf(1) :
           /\ calls[1][k].ok
           /\ \E n \in DOMAIN zone : zone[n] = RR(calls[1][k].recs[1])

----------------------------------------------------------------------------
(* Claim about retries, under SpecAny: nothing but the passes of instance 1 *)
(* writes to the zone, the declared list stays, calls may fail and a failed *)
(* call leaves the zone as it was                                          *)

\* the plan a pass of instance i would compute from the zone z holds the
\* key in the set of the given phase
Replanned(i, z, phase, key) ==
    LET own == parseOwnedRecords(ownerID[i], GetRecords(z))
        desired == Desired(declared[i])
    IN CASE phase = "delete" -> key \in DOMAIN own /\ key \notin DOMAIN desired
         [] phase = "create" -> key \in DOMAIN desired /\ key \notin DOMAIN own
         [] phase = "update" -> /\ key \in DOMAIN desired
                                /\ key \in DOMAIN own
                                /\ NeedsUpdate(own[key], desired[key])
         [] OTHER -> TRUE

\* the key of the data record of a call
CallKey(c) == Key(RR(c.recs[1]).Name, RR(c.recs[1]).Type)

\* C22: when a pass ends, every item whose delete, create or update call
\* failed is in the same set of the plan that the next pass computes from
\* the zone as it stands.
RetriedNextPass ==
    PassEnd(1) =>
        \A k \in DOMAIN calls[1] :
            (calls[1][k].phase # "fetch" /\ ~calls[1][k].ok) =>
                Replanned(1, zone, calls[1][k].phase, CallKey(calls[1][k]))

\* the names of the fetched records, of the declared records and of the
\* zone carry one record type each, and none lies under the marker prefix
OneTypePerName(i) ==
    LET seen == {<<RR(snapshot[i][k]).Name, RR(snapshot[i][k]).Type>> :
                     k \in {j \in DOMAIN snapshot[i] :
                              ~HasPrefix(RR(snapshot[i][j]).Name, txtPrefix)}}
                \cup {<<declared[i][k].Name, declared[i][k].Type>> : k \in DOMAIN declared[i]}
    IN /\ \A p, q \in seen : p[1] = q[1] => p[2] = q[2]
       /\ NoPfxDeclared(i)

\* the same, when no name carries records of two types
RetriedNextPassOneTypePerName ==
    OneTypePerName(1) => RetriedNextPass

----------------------------------------------------------------------------
(* Claim about orphan markers, under SpecAny *)

\* the markers of instance i in the fetched records whose target name has no
\* data record among the fetched records
OrphanMarkers(i) ==
    {RR(snapshot[i][k]) : k \in
        {j \in DOMAIN snapshot[i] :
            LET rr == RR(snapshot[i][j])
            IN /\ rr.Type = "TXT"
               /\ HasPrefix(rr.Name, txtPrefix)
               /\ Encodes(rr.Data, ownerID[i])
               /\ \A n \in DOMAIN snapshot[i] :
                    RR(snapshot[i][n]).Name # TrimPrefix(rr.Name, txtPrefix)}}

\* an orphan marker gives no entry of the owned index
OrphanNotOwned ==
    pc[1] = "apply" =>
        \A m \in OrphanMarkers(1) : \A key \in DOMAIN owned[1] :
            owned[1][key].Name # TrimPrefix(m.Name, txtPrefix)

\* C23: an orphan marker gives no entry of the owned index, and when the pass
\* that fetched it ends, all its calls having succeeded on a provider that
\* can delete, the marker is gone from the zone or its target name has a
\* data record again.
OrphanSwept ==
    /\ OrphanNotOwned
    /\ (PassEnd(1) /\ clean[1] /\ hasDeleter) =>
          \A m \in OrphanMarkers(1) :
              \/ \A n \in DOMAIN zone : zone[n] # m
              \/ \E n \in DOMAIN zone : zone[n].Name = TrimPrefix(m.Name, txtPrefix)

----------------------------------------------------------------------------
(* Claim about the order of the fetched records, under SpecOrder *)

\* C24 as stated: the owned index is the same for the fetched records in
\* any order.
OrderIndependent ==
    codec.stage = "both" => codec.first = codec.second

\* no two data records of the list have the same name and type
OnePerKey(records) ==
    \A a, b \in DOMAIN records :
        (/\ a # b
         /\ ~HasPrefix(RR(records[a]).Name, txtPrefix)
         /\ RR(records[a]).Name = RR(records[b]).Name)
        => RR(records[a]).Type # RR(records[b]).Type

\* the position of a marker of instance 1 for the name n in the list, 0 if none
MarkerAt(records, n) ==
    IF \E k \in DOMAIN records :
          RR(records[k]).Name = txtPrefix \o n /\ Encodes(RR(records[k]).Data, ownerID[1])
    THEN CHOOSE k \in DOMAIN records :
          RR(records[k]).Name = txtPrefix \o n /\ Encodes(RR(records[k]).Data, ownerID[1])
    ELSE 0

\* C24: the owned index has the same keys for the fetched records in any
\* order, whether a marker comes before or after its target, and it is the
\* same index when no two fetched data records share name and type.
OrderIndependentKeys ==
    codec.stage = "both" =>
        /\ DOMAIN codec.first = DOMAIN codec.second
        /\ OnePerKey(codec.snap) => codec.first = codec.second

OrderIndependentKeysWitness ==
    /\ codec.stage = "both"
    /\ OnePerKey(codec.snap)
    /\ codec.first # <<>>
    /\ \E k \in DOMAIN codec.snap, j \in DOMAIN codec.perm :
          /\ codec.snap[k] = codec.perm[j]
          /\ RR(codec.snap[k]).Name = www
          /\ MarkerAt(codec.snap, www) \in 1..(k - 1)
          /\ MarkerAt(codec.perm, www) > j

----------------------------------------------------------------------------
(* Claim about the zones of one run of Start, under SpecZones *)

Finished(i) == pc[i] = "idle" /\ result[i] \in {"nil", "caperr", "fetcherr"}

\* Start is at one domain at a time and takes the domains in order; the
\* calls of a pass begin with its only fetch
OneZoneAtATime ==
    /\ \A i \in Inst : (pc[i] = "apply" \/ calls[i] # <<>>) => app.cur = i
    /\ \A i, j \in Inst : (i < j /\ result[j] # "none") => Finished(i)
    /\ \A i \in Inst : app.cur > i => Finished(i)
    /\ \A i \in Inst : calls[i] # <<>> =>
          /\ calls[i][1].op = "get"
          /\ \A k \in DOMAIN calls[i] : k > 1 => calls[i][k].op # "get"

\* C25: in a run of Start the domains are reconciled one at a time in the
\* order of a.Domains; the calls of a pass begin with one fetch and hold no
\* other; and a step leaves the records of every zone but the one of the
\* domain under reconciliation as they were.
ZoneIsolation ==
    /\ []OneZoneAtATime
    /\ [][\A n \in DOMAIN ZoneRecords :
              (app.cur \notin Inst \/ n # DomainZone[app.cur]) =>
                  /\ n \in DOMAIN ZoneRecords'
                  /\ ZoneRecords'[n] = ZoneRecords[n]]_vars

ZoneIsolationWitness ==
    /\ app.cur = 2
    /\ PassEnd(2)
    /\ \E k \in DOMAIN calls[2] : calls[2][k].op \in {"set", "append"} /\ calls[2][k].ok
    /\ result[1] = "nil"
    /\ elsewhere[DomainZone[1]] # <<>>
    /\ elsewhere[DomainZone[1]] # zone

----------------------------------------------------------------------------
(* Claims about TTLs and malformed addresses *)

\* the provider record carries 300 seconds for a declared TTL of zero and the
\* declared TTL otherwise
TTLSent ==
    codec.stage # "in" =>
        RR(codec.lib).TTL = (IF codec.rec.TTL = 0 THEN 300 ELSE codec.rec.TTL)

\* C26: the provider record built from a declared record carries a TTL of 300
\* seconds when the declared TTL is zero and the declared TTL otherwise, and
\* building it leaves every field of the declared record as it was.
TTLDefaulting ==
    /\ []TTLSent
    /\ [][codec.stage = "in" => codec'.rec = codec.rec]_vars

TTLDefaultingWitness ==
    /\ codec.stage = "lib"
    /\ codec.rec.TTL = 0
    /\ codec.lib.TTL = 300

\* a declared address record whose value is no IP literal
Malformed(r) == r.Type \in {"A", "AAAA"} /\ r.Value \notin DOMAIN AddrTable

\* the call carries, first, a generic record with the name, the type and the
\* raw value of r
CarriesRaw(c, r) ==
    /\ c.recs # <<>>
    /\ c.recs[1].kind = "RR"
    /\ RR(c.recs[1]).Name = r.Name
    /\ RR(c.recs[1]).Type = r.Type
    /\ RR(c.recs[1]).Data = r.Value

\* C27: when a pass ends, every malformed record of toCreate, and of toUpdate
\* if the provider can set, has had exactly one call, which carries a generic
\* record with its name, type and raw value; and whatever the calls
\* returned, the pass has issued one call for every item of its plan.
MalformedSent ==
    PassEnd(1) =>
        /\ \A j \in DOMAIN toCreate[1] :
             Malformed(toCreate[1][j]) =>
                Cardinality({k \in CreateCallsOf(1) :
                                CarriesRaw(calls[1][k], toCreate[1][j])}) = 1
        /\ \A j \in DOMAIN toUpdate[1] :
             (Malformed(toUpdate[1][j]) /\ hasSetter) =>
                Cardinality({k \in UpdateCallsOf(1) :
                                CarriesRaw(calls[1][k], toUpdate[1][j])}) = 1
        /\ Len(calls[1]) = 1 + (IF hasDeleter THEN Len(toDelete[1]) ELSE 0)
                             + Len(toCreate[1])
                             + (IF hasSetter THEN Len(toUpdate[1]) ELSE 0)

MalformedSentWitness ==
    /\ PassEnd(1)
    /\ \E k \in DOMAIN calls[1] :
          /\ \E j \in DOMAIN toCreate[1] :
                Malformed(toCreate[1][j]) /\ CarriesRaw(calls[1][k], toCreate[1][j])
          /\ ~calls[1][k].ok
          /\ \E n \in DOMAIN calls[1] : n > k /\ calls[1][n].ok
    /\ \E k \in UpdateCallsOf(1) : \E j \in DOMAIN toUpdate[1] :
          Malformed(toUpdate[1][j]) /\ CarriesRaw(calls[1][k], toUpdate[1][j])

----------------------------------------------------------------------------
(* Claim about keys declared more than once, under SpecAny *)

\* the positions of the declared list of instance i that hold the key
DeclaredAtKey(i, key) ==
    {k \in DOMAIN declared[i] : Key(declared[i][k].Name, declared[i][k].Type) = key}

\* the greatest member of a non-empty set of numbers
Last(S) == CHOOSE k \in S : \A j \in S : j <= k

\* C28: when a pass ends, for a key that the declared list holds more than
\* once, every record of that key in toCreate and toUpdate is the last one
\* declared, and the create and update calls for the key are at most one.
LastDeclaredWins ==
    PassEnd(1) =>
        \A key \in {Key(declared[1][k].Name, declared[1][k].Type) : k \in DOMAIN declared[1]} :
            Cardinality(DeclaredAtKey(1, key)) > 1 =>
                LET last == declared[1][Last(DeclaredAtKey(1, key))]
                IN /\ \A j \in DOMAIN toCreate[1] :
                        KeysOf(toCreate[1])[j] = key => toCreate[1][j] = last
                   /\ \A j \in DOMAIN toUpdate[1] :
                        KeysOf(toUpdate[1])[j] = key => toUpdate[1][j] = last
                   /\ Cardinality({k \in CreateCallsOf(1) \cup UpdateCallsOf(1) :
                                      CallKey(calls[1][k]) = key}) <= 1
                   /\ \A k \in CreateCallsOf(1) \cup UpdateCallsOf(1) :
                        CallKey(calls[1][k]) = key =>
                            RR(calls[1][k].recs[1]).Data = last.Value

LastDeclaredWinsWitness ==
    /\ PassEnd(1)
    /\ declared[1] = <<wwwA1, wwwA2>>
    /\ \E k \in UpdateCallsOf(1) :
          /\ CallKey(calls[1][k]) = Key(www, "A")
          /\ RR(calls[1][k].recs[1]).Data = <<"192.0.2.2">>

----------------------------------------------------------------------------
(* Claim about providers that lack an interface, under SpecStart *)

Insufficient == "get" \notin caps \/ ("set" \notin caps /\ "append" \notin caps)

\* C29: on a provider without GetRecords, or with neither SetRecords nor
\* AppendRecords, reconcileDomain ends with an error for every domain without
\* a single provider call, be it a fetch or a delete the provider could
\* serve, and without a change to the zone; Start logs the error of each
\* domain, goes through all of them and returns nil.
NoCallsWithoutCapabilities ==
    /\ [](Insufficient =>
            /\ \A i \in Inst : calls[i] = <<>> /\ pc[i] = "idle"
            /\ \A i \in Inst : result[i] \in {"none", "caperr"}
            /\ \A i \in Inst : app.cur > i => (result[i] = "caperr" /\ FailureLogged(i))
            /\ app.start = "nil" <=> app.cur > Cardinality(Inst))
    /\ [][Insufficient => zone' = zone]_vars

NoCallsWithoutCapabilitiesWitness ==
    /\ caps = {"get", "delete"}
    /\ zone # <<>>
    /\ app.start = "nil"
    /\ \A i \in Inst : result[i] = "caperr" /\ FailureLogged(i)

----------------------------------------------------------------------------
(* Claim about what delete requests name, under SpecAny *)

\* the record of a request is a data record of the owned index of instance i
NamesOwnedRecord(i, rr) ==
    /\ ~HasPrefix(rr.Name, txtPrefix)
    /\ \E key \in DOMAIN owned[i] :
          /\ owned[i][key].Name = rr.Name
          /\ owned[i][key].Type = rr.Type
          /\ owned[i][key].Value = rr.Data

\* the record of a request is the marker of instance i, with its own owner
\* ID in the payload, for the name of a record of the owned index
NamesOwnMarker(i, rr) ==
    /\ rr.Type = "TXT"
    /\ rr.Data = <<"owner=">> \o ownerID[i] \o <<",heritage=", "caddy-dns-register">>
    /\ \E key \in DOMAIN owned[i] : rr.Name = <<"_cdr.">> \o owned[i][key].Name

\* a marker of the zone whose payload is not the one of instance i
ForeignMarker(i, r) ==
    /\ r.Type = "TXT"
    /\ HasPrefix(r.Name, txtPrefix)
    /\ ~Encodes(r.Data, ownerID[i])

\* C30: every record of every delete request of a pass is a data record of
\* the owned index or this instance's own marker for the name of one; no
\* delete request holds a marker with another owner's payload, and no step
\* of the delete loop takes a marker of another owner out of the zone.
DeletesInsideOwned ==
    /\ [](\A k \in DeleteCallsOf(1) : \A n \in DOMAIN calls[1][k].recs :
            LET rr == RR(calls[1][k].recs[n])
            IN /\ NamesOwnedRecord(1, rr) \/ NamesOwnMarker(1, rr)
               /\ ~ForeignMarker(1, rr))
    /\ [][(pc[1] = "apply" /\ ix'[1].d = ix[1].d + 1) =>
             \A k \in DOMAIN zone :
                 ForeignMarker(1, zone[k]) => \E n \in DOMAIN zone' : zone'[n] = zone[k]]_vars

DeletesInsideOwnedWitness ==
    /\ PassEnd(1)
    /\ \E k \in DeleteCallsOf(1) :
          /\ calls[1][k].ok
          /\ RR(calls[1][k].recs[1]).Name = www
          /\ \E n \in DOMAIN zone :
                /\ zone[n].Name = txtPrefix \o www
                /\ zone[n].Data = ExpectedValue(<<"other">>)
          /\ \A n \in DOMAIN zone :
                zone[n].Name = txtPrefix \o www => ~Encodes(zone[n].Data, ownerID[1])

----------------------------------------------------------------------------
(* Claims about the owned index and the plan, under SpecAny *)

\* the fetched records hold a marker of instance i for the name n
MarkerFetched(i, n) ==
    \E k \in DOMAIN snapshot[i] :
        /\ RR(snapshot[i][k]).Type = "TXT"
        /\ RR(snapshot[i][k]).Name = <<"_cdr.">> \o n
        /\ Encodes(RR(snapshot[i][k]).Data, ownerID[i])

\* C31: during a pass, every fetched record whose name is not under the
\* marker prefix and for whose name the fetched records hold this instance's
\* marker has its name:type key in the owned index, whatever its type; and
\* if that key is not declared it is in toDelete.
OwnedPerName ==
    pc[1] = "apply" =>
        \A k \in DOMAIN snapshot[1] :
            LET rr == RR(snapshot[1][k])
                key == rr.Name \o <<":", rr.Type>>
            IN (~HasPrefix(rr.Name, txtPrefix) /\ MarkerFetched(1, rr.Name)) =>
                  /\ key \in DOMAIN owned[1]
                  /\ owned[1][key].Name = rr.Name /\ owned[1][key].Type = rr.Type
                  /\ (\A n \in DOMAIN declared[1] :
                         declared[1][n].Name # rr.Name \/ declared[1][n].Type # rr.Type)
                     => \E j \in DOMAIN toDelete[1] : toDelete[1][j] = key

OwnedPerNameWitness ==
    /\ pc[1] = "apply"
    /\ declared[1] = <<wwwA1>>
    /\ Key(www, "A") \in DOMAIN owned[1]
    /\ Key(www, "TXT") \in DOMAIN owned[1]
    /\ toDelete[1] = <<Key(www, "TXT")>>

\* the keys of the three slices of the plan of instance i
CreateKeys(i) == {Key(toCreate[i][k].Name, toCreate[i][k].Type) : k \in DOMAIN toCreate[i]}

UpdateKeys(i) == {Key(toUpdate[i][k].Name, toUpdate[i][k].Type) : k \in DOMAIN toUpdate[i]}

DeleteKeys(i) == {toDelete[i][k] : k \in DOMAIN toDelete[i]}

\* C32: during a pass the keys of toCreate, toUpdate and toDelete are
\* pairwise disjoint, no slice holds a key twice, the keys of toDelete and
\* toUpdate are keys of the owned index and no key of toCreate is.
PlanWellFormed ==
    pc[1] = "apply" =>
        /\ CreateKeys(1) \cap UpdateKeys(1) = {}
        /\ CreateKeys(1) \cap DeleteKeys(1) = {}
        /\ UpdateKeys(1) \cap DeleteKeys(1) = {}
        /\ Cardinality(CreateKeys(1)) = Len(toCreate[1])
        /\ Cardinality(UpdateKeys(1)) = Len(toUpdate[1])
        /\ Cardinality(DeleteKeys(1)) = Len(toDelete[1])
        /\ DeleteKeys(1) \cup UpdateKeys(1) \subseteq DOMAIN owned[1]
        /\ CreateKeys(1) \cap DOMAIN owned[1] = {}

PlanWellFormedWitness ==
    /\ pc[1] = "apply"
    /\ toCreate[1] # <<>>
    /\ toUpdate[1] # <<>>
    /\ toDelete[1] # <<>>

----------------------------------------------------------------------------
(* Claim about the order of the items inside a phase, under SpecAny *)

\* the delete loop over the keys in the given order, every call succeeding
RECURSIVE DeletePhase(_, _, _)
DeletePhase(i, z, keys) ==
    IF keys = <<>> \/ ~hasDeleter THEN z
    ELSE LET rec == owned[i][Head(keys)]
         IN DeletePhase(i,
                DeleteRecords(z, <<toLibdnsRecord(rec), makeTXTMarker(ownerID[i], rec.Name)>>),
                Tail(keys))

\* the create loop over the records in the given order, every call succeeding
RECURSIVE CreatePhase(_, _, _)
CreatePhase(i, z, recs) ==
    IF recs = <<>> THEN z
    ELSE LET rec == Head(recs)
             pair == <<toLibdnsRecord(rec), makeTXTMarker(ownerID[i], rec.Name)>>
         IN CreatePhase(i,
                IF hasSetter THEN SetRecords(z, pair) ELSE AppendRecords(z, pair),
                Tail(recs))

\* the update loop over the records in the given order, every call succeeding
RECURSIVE UpdatePhase(_, _)
UpdatePhase(z, recs) ==
    IF recs = <<>> \/ ~hasSetter THEN z
    ELSE UpdatePhase(SetRecords(z, <<toLibdnsRecord(Head(recs))>>), Tail(recs))

\* the sequence s in the order p
Reordered(s, p) == [k \in DOMAIN s |-> s[p[k]]]

\* C33: when a pass ends with every call having succeeded and nobody else
\* having written, the records of the zone are those that the three phases
\* leave when the items of each phase are taken in any other order.
OrderDeterministic ==
    (PassEnd(1) /\ clean[1]) =>
        \A pd \in Perms(DOMAIN toDelete[1]) :
        \A pk \in Perms(DOMAIN toCreate[1]) :
        \A pu \in Perms(DOMAIN toUpdate[1]) :
            SeqToSet(UpdatePhase(
                        CreatePhase(1,
                            DeletePhase(1, RRs(snapshot[1]), Reordered(toDelete[1], pd)),
                            Reordered(toCreate[1], pk)),
                        Reordered(toUpdate[1], pu)))
              = SeqToSet(zone)

\* the same, for configurations none of whose names lies in the marker namespace
OrderDeterministicOrdinaryNames ==
    NoPfxDeclared(1) => OrderDeterministic

----------------------------------------------------------------------------
(* Claim about names under the marker prefix, under SpecAny *)

\* the key is the key of a name that starts with the marker prefix
PrefixedKey(key) == key # <<>> /\ key[1] = "_cdr."

\* C34: during a pass no record whose name starts with "_cdr." is in the
\* owned index, in toDelete or in toUpdate, and every declared record whose
\* name starts with "_cdr." is in toCreate, also when the fetched records
\* already hold it.
PrefixedNeverOwned ==
    pc[1] = "apply" =>
        /\ \A key \in DOMAIN owned[1] :
             ~PrefixedKey(key) /\ owned[1][key].Name[1] # "_cdr."
        /\ \A k \in DOMAIN toDelete[1] : ~PrefixedKey(toDelete[1][k])
        /\ \A k \in DOMAIN toUpdate[1] : toUpdate[1][k].Name[1] # "_cdr."
        /\ \A n \in DOMAIN declared[1] :
             declared[1][n].Name[1] = "_cdr." =>
                \E k \in DOMAIN toCreate[1] :
                    /\ toCreate[1][k].Name = declared[1][n].Name
                    /\ toCreate[1][k].Type = declared[1][n].Type

\* the pass has fetched the declared record under the prefix, written by an
\* earlier pass together with its marker, and plans to create it again
PrefixedNeverOwnedWitness ==
    /\ pc[1] = "apply"
    /\ \E k \in DOMAIN toCreate[1] : toCreate[1][k] = pfxTXT
    /\ \E n \in DOMAIN snapshot[1] :
          /\ RR(snapshot[1][n]).Name = pfxTXT.Name
          /\ RR(snapshot[1][n]).Data = pfxTXT.Value
    /\ MarkerFetched(1, pfxTXT.Name)

(* C35  Provisioning.  Provision replaces an empty owner ID by "caddy" and  *)
(* leaves any other owner ID as configured; no later step changes the owner *)
(* ID; and when Provision reaches a domain without a dns_provider           *)
(* configuration it returns an error naming that domain's zone and loads no *)
(* provider of that or any later domain.                                    *)

\* the first domain of a.Domains without a dns_provider configuration
FirstMissing == First({i \in Inst : ~app.raw[i]})

\* Provision has returned and some domain has no dns_provider configuration
ProvisionMetMissing ==
    /\ app.provision # "none"
    /\ \E i \in Inst : ~app.raw[i]

OwnerDefaulted ==
    /\ app.provision = "none"
    /\ app'.provision # "none"
    => \A i \in Inst :
         ownerID'[i] = IF ownerID[i] = <<>> THEN <<"caddy">> ELSE ownerID[i]

OwnerKept == app.provision # "none" => ownerID' = ownerID

MissingProviderStops ==
    ProvisionMetMissing =>
      /\ app.provision = "error"
      /\ app.loaded \subseteq {i \in Inst : i < FirstMissing}
      /\ app.loaded = {i \in Inst : i < FirstMissing}
           => app.err = DomainZone[FirstMissing]

ProvisionContract ==
    /\ [][OwnerDefaulted /\ OwnerKept]_vars
    /\ []MissingProviderStops

\* Provision defaulted the owner ID, loaded the first domain's provider and
\* returned the error naming the second domain, which has no dns_provider
ProvisionContractWitness ==
    /\ app.provision = "error"
    /\ app.raw = (1 :> TRUE) @@ (2 :> FALSE)
    /\ app.loaded = {1}
    /\ app.err = "example.org"
    /\ \A i \in Inst : ownerID[i] = <<"caddy">>

====
